---- MODULE Spec2Model ----
(***************************************************************************)
(* Hospitrax: the NotificationService (delivery policy, quiet hours,       *)
(* subscriber broadcast, local persistence, fire-and-forget channel sends) *)
(* and the ResourceService (inventory upsert keyed by hospital and label). *)
(***************************************************************************)
EXTENDS Integers, Sequences, FiniteSets, TLC

VARIABLES
    \* NotificationService
    constructed,    \* the singleton exists (getInstance has run in this page)
    settings,       \* this.settings
    notifications,  \* this.notifications, newest first
    listeners,      \* this.listeners, in registration order
    storage,        \* localStorage: the two entries the service uses
    now,            \* the clock, in days
    nextId,         \* ids handed out so far (generateId yields a fresh one)
    pending,        \* channel sends started and not yet settled
    settled,        \* the channel send that settled last, with its outcome
    callTrace,      \* what the latest public call did, in order
    callResult,     \* what the latest public call handed to its caller
    \* ResourceService
    resources,      \* this.resources, newest first
    resListeners,   \* this.listeners, in registration order
    resNextId,      \* ids handed out so far (id() yields a fresh one)
    resCalls,       \* addOrUpdateResource calls made so far
    resLast,        \* the arguments and the branch of the latest call
    resSupplied,    \* per hospital and label: the row's first count, and the
                    \* sum of the supplies made to it since
    \* pure functions applied to drawn inputs
    pin,            \* the inputs
    pout            \* the results computed so far

notifVars == <<constructed, settings, notifications, listeners, storage, now,
               nextId, pending, settled, callTrace, callResult>>
resVars   == <<resources, resListeners, resNextId, resCalls, resLast,
               resSupplied>>
pureVars  == <<pin, pout>>
vars      == <<notifVars, resVars, pureVars>>

\* An optional value: <<>> is undefined / null / a missing key, <<v>> is v.
None    == <<>>
Some(v) == <<v>>

----------------------------------------------------------------------------
(* Bounds of the model *)

MaxNotifs    == 2   \* createNotification calls per run
MaxStored    == 2   \* length of a stored list the constructor is given
MaxResCalls  == 2   \* addOrUpdateResource calls per run

----------------------------------------------------------------------------
(* Enumerations (types/notifications) *)

IN_APP == "IN_APP"
PUSH   == "PUSH"
EMAIL  == "EMAIL"
SMS    == "SMS"
Channels == {IN_APP, PUSH, EMAIL, SMS}

LOW      == "LOW"
MEDIUM   == "MEDIUM"
HIGH     == "HIGH"
URGENT   == "URGENT"
CRITICAL == "CRITICAL"
Priorities == {LOW, MEDIUM, HIGH, URGENT, CRITICAL}

APPOINTMENTS          == "APPOINTMENTS"
RESOURCES             == "RESOURCES"
EMERGENCY             == "EMERGENCY"
STAFF                 == "STAFF"
AI_INSIGHTS           == "AI_INSIGHTS"
PATIENT_COMMUNICATION == "PATIENT_COMMUNICATION"
ADMINISTRATIVE        == "ADMINISTRATIVE"
SYSTEM                == "SYSTEM"
Categories == {APPOINTMENTS, RESOURCES, EMERGENCY, STAFF, AI_INSIGHTS,
               PATIENT_COMMUNICATION, ADMINISTRATIVE, SYSTEM}

----------------------------------------------------------------------------
(* HH:MM strings.  A time of day is the string "HH:MM"; it is held as its  *)
(* four digit characters (the colon is at the same place in every such     *)
(* string and never decides a comparison).                                 *)

\* Date.toTimeString().slice(0, 5): two zero-padded digits each.
TimeStr(h, m) == <<h \div 10, h % 10, m \div 10, m % 10>>

\* JavaScript's < on strings: the first differing character decides.
StrLess(a, b) ==
    \E i \in 1..4 : /\ a[i] < b[i]
                    /\ \A j \in 1..(i - 1) : a[j] = b[j]

StrGreater(a, b) == StrLess(b, a)
StrLeq(a, b)     == ~StrLess(b, a)
StrGeq(a, b)     == ~StrLess(a, b)

\* The minute of the day a time string denotes.
MinuteOfDay(t) == (t[1] * 10 + t[2]) * 60 + t[3] * 10 + t[4]

Hours      == {3, 7, 9, 10, 12, 17, 18, 22, 23}
MinuteMarks == {0, 30}
TimesOfDay == {TimeStr(h, m) : h \in Hours, m \in MinuteMarks}

----------------------------------------------------------------------------
(* Settings *)

DefaultChannels ==
    [c \in Channels |-> c \in {IN_APP, PUSH}]
DefaultCategories ==
    [c \in Categories |-> c # ADMINISTRATIVE]
DefaultPriorities ==
    [p \in Priorities |-> p # LOW]
DefaultQuietHours ==
    [enabled |-> TRUE, start |-> TimeStr(22, 0), end |-> TimeStr(7, 0),
     timezone |-> "UTC-5"]

getDefaultSettings ==
    [userId      |-> "user-123",
     channels    |-> DefaultChannels,
     categories  |-> DefaultCategories,
     priorities  |-> DefaultPriorities,
     quietHours  |-> DefaultQuietHours,
     emailDigest |-> [enabled |-> TRUE, frequency |-> "daily"]]

\* { ...a, ...b }: b's top-level keys replace a's, the others stay.
Spread(a, b) ==
    [k \in (DOMAIN a) \cup (DOMAIN b) |-> IF k \in DOMAIN b THEN b[k] ELSE a[k]]

\* obj[key] read for its truth: a missing key reads undefined, which is falsy.
Truthy(map, key) == key \in DOMAIN map /\ map[key] = TRUE

----------------------------------------------------------------------------
(* The delivery policy *)

isInQuietHours_ExclusiveEnd(s, currentTime) ==
    IF ~s.quietHours.enabled THEN FALSE
    ELSE LET start == s.quietHours.start
             end   == s.quietHours.end
         IN IF StrGreater(start, end)
            THEN StrGeq(currentTime, start) \/ StrLess(currentTime, end)
            ELSE StrGeq(currentTime, start) /\ StrLess(currentTime, end)

\* isInQuietHours, with the settings and the current HH:MM made explicit.
isInQuietHours(s, currentTime) ==
    IF ~s.quietHours.enabled THEN FALSE
    ELSE LET start == s.quietHours.start
             end   == s.quietHours.end
         IN IF StrGreater(start, end)
            THEN StrGeq(currentTime, start) \/ StrLeq(currentTime, end)
            ELSE StrGeq(currentTime, start) /\ StrLeq(currentTime, end)

shouldSendNotification_NoBypass(s, n, currentTime) ==
    IF ~Truthy(s.categories, n.category) THEN FALSE
    ELSE IF ~Truthy(s.priorities, n.priority) THEN FALSE
    ELSE IF isInQuietHours(s, currentTime) THEN FALSE
    ELSE TRUE

shouldSendNotification_IgnoresPriority(s, n, currentTime) ==
    IF \/ n.priority = CRITICAL
       \/ n.priority = URGENT
       \/ n.category = EMERGENCY
    THEN TRUE
    ELSE IF ~Truthy(s.categories, n.category) THEN FALSE
    ELSE IF isInQuietHours(s, currentTime) THEN FALSE
    ELSE TRUE

\* shouldSendNotification, with the settings and the current HH:MM explicit.
shouldSendNotification(s, n, currentTime) ==
    IF \/ n.priority = CRITICAL
       \/ n.priority = URGENT
       \/ n.category = EMERGENCY
    THEN TRUE
    ELSE IF ~Truthy(s.categories, n.category) THEN FALSE
    ELSE IF ~Truthy(s.priorities, n.priority) THEN FALSE
    ELSE IF isInQuietHours(s, currentTime) THEN FALSE
    ELSE TRUE

----------------------------------------------------------------------------
(* Notifications in memory and in storage *)

RetentionDays == 30

Range(seq) == {seq[i] : i \in 1..Len(seq)}

RECURSIVE SelectSeqKeep(_, _)
\* Array.filter on the list, by a set of positions to keep.
SelectSeqKeep(seq, keep) ==
    IF seq = <<>> THEN <<>>
    ELSE LET rest == SelectSeqKeep(Tail(seq), {i - 1 : i \in keep \ {1}})
         IN IF 1 \in keep THEN <<Head(seq)>> \o rest ELSE rest

\* Date.toISOString() and new Date(isoString): an instant t in memory is the
\* string <<"iso", t>> in storage.
toISOString(t) == <<"iso", t>>
ParseDate(str) == str[2]

\* One element of the array saveNotifications writes: the dates become ISO
\* strings, and JSON.stringify leaves out a key whose value is undefined.
SerializeNotification(n) ==
    [n EXCEPT !.timestamp = toISOString(n.timestamp),
              !.expiresAt = IF n.expiresAt # None
                            THEN toISOString(n.expiresAt[1]) ELSE None]

Serialize(list) == [i \in 1..Len(list) |-> SerializeNotification(list[i])]

\* The map step of loadNotifications.
ReviveNotification(e) ==
    [e EXCEPT !.timestamp = ParseDate(e.timestamp),
              !.expiresAt = IF e.expiresAt # None
                            THEN Some(ParseDate(e.expiresAt)) ELSE None]

LoadKeeps_AgeExclusive(n, clock) ==
    IF n.expiresAt # None /\ n.expiresAt[1] < clock THEN FALSE
    ELSE (clock - n.timestamp) < RetentionDays

\* The filter step of loadNotifications.
LoadKeeps(n, clock) ==
    IF n.expiresAt # None /\ n.expiresAt[1] < clock THEN FALSE
    ELSE (clock - n.timestamp) <= RetentionDays

LoadFilter(parsed, clock) ==
    LET revived == [i \in 1..Len(parsed) |-> ReviveNotification(parsed[i])]
    IN SelectSeqKeep(revived, {i \in 1..Len(revived) : LoadKeeps(revived[i], clock)})

SavedStorage_KeepsOlder(st, list, saveOk) ==
    IF saveOk /\ st.notifications = None
    THEN [st EXCEPT !.notifications = Some(Serialize(list))] ELSE st

\* saveNotifications: setItem may throw (quota); the error is caught and logged.
SavedStorage(st, list, saveOk) ==
    IF saveOk THEN [st EXCEPT !.notifications = Some(Serialize(list))] ELSE st

----------------------------------------------------------------------------
(* Events of a call, in the order the code performs them *)

Ev(ev, who, list) == [ev |-> ev, who |-> who, list |-> list]

SaveEvent(list, saveOk) == Ev("save", IF saveOk THEN "ok" ELSE "failed", list)

notifyListeners_NewestFirst(ls, list) ==
    [i \in 1..Len(ls) |-> Ev("notify", ls[Len(ls) + 1 - i], list)]

\* notifyListeners: forEach over the listeners, in registration order.
notifyListeners(ls, list) == [i \in 1..Len(ls) |-> Ev("notify", ls[i], list)]

----------------------------------------------------------------------------
(* Construction and page lifetime *)

\* Stored text that is not what the service wrote.  A settings entry:
\* text JSON.parse rejects, or an object whose quietHours is null.  A
\* notifications entry: text JSON.parse rejects, or an object that is no array.
NullValue           == [null |-> TRUE]
UnparseableSettings == [malformed |-> "unparseable"]
NullQuietHours      == [quietHours |-> NullValue]
UnparseableList     == <<[malformed |-> "unparseable"]>>
NotAnArray          == <<[malformed |-> "object"]>>

\* JSON.parse(stored) throws.
SettingsParseThrows(stored) == "malformed" \in DOMAIN stored

\* JSON.parse(stored) throws, or parsed.map is not a function.
ListLoadThrows(stored) == Len(stored) >= 1 /\ "malformed" \in DOMAIN stored[1]

\* loadSettings: the stored entry, when there is one, is spread over the
\* current settings; a parse error is caught and the settings stay.
LoadedSettings(cur, st) ==
    IF st.notificationSettings # None
       /\ ~SettingsParseThrows(st.notificationSettings[1])
    THEN Spread(cur, st.notificationSettings[1]) ELSE cur

\* NotificationService.getInstance() on a fresh page: the constructor sets the
\* defaults, then loadSettings(), then loadNotifications().
GetInstance(saveOk) ==
    /\ ~constructed
    /\ constructed' = TRUE
    /\ settings' = LoadedSettings(getDefaultSettings, storage)
    /\ listeners' = <<>>
    /\ IF storage.notifications # None /\ ~ListLoadThrows(storage.notifications[1])
       THEN LET parsed == storage.notifications[1]
                loaded == LoadFilter(parsed, now)
                resave == Len(loaded) # Len(parsed)
            IN /\ notifications' = loaded
               /\ storage' = IF resave
                             THEN SavedStorage(storage, loaded, saveOk)
                             ELSE storage
               /\ callTrace' = (IF resave THEN <<SaveEvent(loaded, saveOk)>>
                                ELSE <<>>)
                               \o notifyListeners(<<>>, loaded)
       ELSE /\ notifications' = <<>>
            /\ storage' = storage
            /\ callTrace' = <<>>
    /\ callResult' = [op |-> "getInstance", status |-> "returned", value |-> None]
    /\ UNCHANGED <<now, nextId, pending, settled, resVars, pureVars>>

----------------------------------------------------------------------------
(* Subscribers *)

\* The listener functions.  Every caller in the repository hands subscribe a
\* closure of its own, so a function is registered at most once at a time.
ListenerIds == {"L1", "L2"}

Subscribe_DeliversNow(l) ==
    /\ constructed
    /\ l \notin Range(listeners)
    /\ listeners' = Append(listeners, l)
    /\ callTrace' = <<[kind |-> "notify", who |-> l, list |-> notifications]>>
    /\ callResult' = [op |-> "subscribe", status |-> "returned", value |-> None]
    /\ UNCHANGED <<constructed, settings, notifications, storage, now, nextId,
                   pending, settled, resVars, pureVars>>

\* subscribe(listener): pushed at the end; nothing is delivered to it now.
Subscribe(l) ==
    /\ constructed
    /\ l \notin Range(listeners)
    /\ listeners' = Append(listeners, l)
    /\ callTrace' = <<>>
    /\ callResult' = [op |-> "subscribe", status |-> "returned", value |-> None]
    /\ UNCHANGED <<constructed, settings, notifications, storage, now, nextId,
                   pending, settled, resVars, pureVars>>

\* The handle subscribe returned: every registration of l is filtered out.
Unsubscribe(l) ==
    /\ constructed
    /\ l \in Range(listeners)
    /\ listeners' = SelectSeqKeep(listeners,
                                  {i \in 1..Len(listeners) : listeners[i] # l})
    /\ callTrace' = <<>>
    /\ callResult' = [op |-> "unsubscribe", status |-> "returned", value |-> None]
    /\ UNCHANGED <<constructed, settings, notifications, storage, now, nextId,
                   pending, settled, resVars, pureVars>>

----------------------------------------------------------------------------
(* createNotification *)

Draft(priority, category, channels, expiresAt) ==
    [priority |-> priority, category |-> category,
     deliveryChannels |-> channels, isRead |-> FALSE, expiresAt |-> expiresAt]

\* The drafts callers hand in: the templates of createEmergencyAlert,
\* createResourceAlert and createAIInsight, and drafts of a caller's own.
Drafts ==
    {Draft(LOW, EMERGENCY, <<IN_APP, PUSH, SMS>>, None),
     Draft(HIGH, RESOURCES, <<IN_APP, PUSH>>, None),
     Draft(MEDIUM, AI_INSIGHTS, <<IN_APP, EMAIL>>, None),
     Draft(URGENT, ADMINISTRATIVE, <<PUSH, SMS>>, None)}

\* The times of day at which calls are made.
CallTimes == {TimeStr(3, 0), TimeStr(12, 0)}

\* { ...notification, id: this.generateId(), timestamp: new Date() }
NewNotification(draft, id, clock) ==
    [id |-> id, timestamp |-> clock, priority |-> draft.priority,
     category |-> draft.category, deliveryChannels |-> draft.deliveryChannels,
     isRead |-> draft.isRead, expiresAt |-> draft.expiresAt]

SendPositions_IgnoreSettings(s, n) == 1..Len(n.deliveryChannels)

\* sendNotification: the positions of deliveryChannels whose channel is enabled
\* in settings; sendToChannel is called for each, in order.
SendPositions(s, n) ==
    {k \in 1..Len(n.deliveryChannels) : Truthy(s.channels, n.deliveryChannels[k])}

SendEvents(s, n) ==
    SelectSeqKeep([k \in 1..Len(n.deliveryChannels) |->
                      Ev("send", n.deliveryChannels[k], <<>>)],
                  SendPositions(s, n))

\* The sends still running when createNotification returns.  The in-app,
\* e-mail and SMS sinks log and are done inside the call.  sendPushNotification
\* awaits the service worker, so the push send is in flight after the return,
\* unless the platform has no service worker: then it does nothing at all.
SendTasks(s, n, pushCapable) ==
    {[id |-> n.id, channel |-> n.deliveryChannels[k], k |-> k] :
        k \in {j \in SendPositions(s, n) :
                  n.deliveryChannels[j] = PUSH /\ pushCapable}}

InAppEvents_Always(n, ls, list, saveOk) ==
    <<Ev("store", "", list)>> \o notifyListeners(ls, list)
    \o <<SaveEvent(list, saveOk)>>

\* Lines 90-96: store, broadcast, save, when IN_APP is among the channels.
InAppEvents(n, ls, list, saveOk) ==
    IF IN_APP \in Range(n.deliveryChannels)
    THEN <<Ev("store", "", list)>> \o notifyListeners(ls, list)
         \o <<SaveEvent(list, saveOk)>>
    ELSE <<>>

\* Lines 99-104: the policy decides, then sendNotification starts the sends.
DispatchEvents(s, n, accepted) ==
    <<Ev("policy", IF accepted THEN "accept" ELSE "reject", <<>>)>>
    \o (IF accepted THEN SendEvents(s, n) ELSE <<>>)

CreateEvents_SendFirst(s, n, ls, list, saveOk, accepted) ==
    DispatchEvents(s, n, accepted) \o InAppEvents(n, ls, list, saveOk)
    \o <<Ev("return", "", <<>>)>>

CreateEvents_BroadcastIfAccepted(s, n, ls, list, saveOk, accepted) ==
    (IF accepted THEN InAppEvents(n, ls, list, saveOk)
     ELSE <<Ev("store", "", list)>>)
    \o DispatchEvents(s, n, accepted)
    \o <<Ev("return", "", <<>>)>>

\* The body of createNotification, in the order of the code.
CreateEvents(s, n, ls, list, saveOk, accepted) ==
    InAppEvents(n, ls, list, saveOk) \o DispatchEvents(s, n, accepted)
    \o <<Ev("return", "", <<>>)>>

\* shouldSendNotification throws a TypeError: the notification does not
\* bypass, its category and priority are enabled, and isInQuietHours reads
\* .enabled of a quietHours that is null.
PolicyThrows(s, n) ==
    /\ ~(n.priority = CRITICAL \/ n.priority = URGENT \/ n.category = EMERGENCY)
    /\ Truthy(s.categories, n.category)
    /\ Truthy(s.priorities, n.priority)
    /\ "null" \in DOMAIN s.quietHours

\* The call itself, as a caller that does more in the same turn makes it.
createNotificationCall(draft, currentTime, saveOk, pushCapable) ==
    /\ constructed
    /\ nextId < MaxNotifs
    /\ LET n        == NewNotification(draft, nextId + 1, now)
           inApp    == IN_APP \in Range(n.deliveryChannels)
           list     == IF inApp THEN <<n>> \o notifications ELSE notifications
           throws   == PolicyThrows(settings, n)
           accepted == shouldSendNotification(settings, n, currentTime)
       IN /\ nextId' = nextId + 1
          /\ notifications' = list
          /\ storage' = IF inApp THEN SavedStorage(storage, list, saveOk)
                        ELSE storage
          /\ callTrace' =
                IF throws
                THEN InAppEvents(n, listeners, list, saveOk)
                     \o <<Ev("throw", "", <<>>)>>
                ELSE CreateEvents(settings, n, listeners, list, saveOk, accepted)
          /\ pending' = IF ~throws /\ accepted
                        THEN pending \cup SendTasks(settings, n, pushCapable)
                        ELSE pending
          /\ callResult' =
                IF throws
                THEN [op |-> "createNotification", status |-> "rejected",
                      value |-> None]
                ELSE [op |-> "createNotification", status |-> "resolved",
                      value |-> Some(n)]
    /\ UNCHANGED <<constructed, settings, listeners, now, settled>>

createNotification(draft, currentTime, saveOk, pushCapable) ==
    /\ createNotificationCall(draft, currentTime, saveOk, pushCapable)
    /\ UNCHANGED <<resVars, pureVars>>

----------------------------------------------------------------------------
(* Channel sends settling, after the call that started them has returned *)

\* What a send in flight can come to: showNotification resolves, or
\* serviceWorker.ready or showNotification rejects.
Outcomes(ch) == {"ok", "failed"}

SettleEffect_Rollback(task, outcome) ==
    /\ notifications' =
          IF outcome = "failed"
          THEN SelectSeqKeep(notifications,
                 {i \in 1..Len(notifications) : notifications[i].id # task.id})
          ELSE notifications
    /\ callResult' = callResult

SettleEffect_Rethrow(task, outcome) ==
    /\ notifications' = notifications
    /\ callResult' = IF outcome = "failed"
                     THEN [callResult EXCEPT !.status = "rejected"]
                     ELSE callResult

\* What a settled send does to the service: a failure is caught (line 211,
\* and line 101 behind it) and logged, and nothing else happens.
SettleEffect(task, outcome) ==
    /\ notifications' = notifications
    /\ callResult' = callResult

SettleSend_FailureCancelsOthers(task, outcome) ==
    /\ constructed
    /\ task \in pending
    /\ pending' = IF outcome = "failed"
                  THEN {t \in pending : t.id # task.id}
                  ELSE pending \ {task}
    /\ settled' = Some([task |-> task, outcome |-> outcome])
    /\ SettleEffect(task, outcome)
    /\ UNCHANGED <<constructed, settings, listeners, storage, now, nextId,
                   callTrace, resVars, pureVars>>

SettleSend(task, outcome) ==
    /\ constructed
    /\ task \in pending
    /\ pending' = pending \ {task}
    /\ settled' = Some([task |-> task, outcome |-> outcome])
    /\ SettleEffect(task, outcome)
    /\ UNCHANGED <<constructed, settings, listeners, storage, now, nextId,
                   callTrace, resVars, pureVars>>

----------------------------------------------------------------------------
(* Settings *)

\* The partial settings callers hand to updateSettings.
SettingsUpdates ==
    {[channels |-> [c \in Channels |-> c \in {EMAIL, SMS}]],
     [quietHours |-> [DefaultQuietHours EXCEPT !.enabled = FALSE],
      categories |-> [c \in Categories |-> c # RESOURCES]]}

\* updateSettings: merge, then setItem; a setItem that throws is not caught.
updateSettings(partial, saveOk) ==
    /\ constructed
    /\ settings' = Spread(settings, partial)
    /\ storage' = IF saveOk
                  THEN [storage EXCEPT !.notificationSettings = Some(settings')]
                  ELSE storage
    /\ callTrace' = <<>>
    /\ callResult' = [op |-> "updateSettings",
                      status |-> IF saveOk THEN "returned" ELSE "threw",
                      value |-> None]
    /\ UNCHANGED <<constructed, notifications, listeners, now, nextId, pending,
                   settled, resVars, pureVars>>

\* loadSettings(): the stored settings, when there are any, are spread over
\* the current ones.  The notification list is not read and nobody is called.
loadSettings ==
    /\ constructed
    /\ settings' = LoadedSettings(settings, storage)
    /\ callTrace' = <<>>
    /\ callResult' = [op |-> "loadSettings", status |-> "returned", value |-> None]
    /\ UNCHANGED <<constructed, notifications, listeners, storage, now, nextId,
                   pending, settled, resVars, pureVars>>

----------------------------------------------------------------------------
(* Marking as read and clearing *)

MarkedRead_MovesToFront(list, id) ==
    LET marked == [i \in 1..Len(list) |->
                     IF list[i].id = id THEN [list[i] EXCEPT !.isRead = TRUE]
                     ELSE list[i]]
    IN SelectSeqKeep(marked, {i \in 1..Len(list) : list[i].id = id})
       \o SelectSeqKeep(marked, {i \in 1..Len(list) : list[i].id # id})

\* notifications.map(n => n.id === id ? { ...n, isRead: true } : n)
MarkedRead(list, id) ==
    [i \in 1..Len(list) |->
        IF list[i].id = id THEN [list[i] EXCEPT !.isRead = TRUE] ELSE list[i]]

AllRead_UnreadOnly(list) ==
    SelectSeqKeep([i \in 1..Len(list) |-> [list[i] EXCEPT !.isRead = TRUE]],
                  {i \in 1..Len(list) : ~list[i].isRead})

\* notifications.map(n => ({ ...n, isRead: true }))
AllRead(list) == [i \in 1..Len(list) |-> [list[i] EXCEPT !.isRead = TRUE]]

ClearKeeps_CutoffExclusive(n, clock, daysToKeep) ==
    IF n.expiresAt # None /\ n.expiresAt[1] < clock THEN FALSE
    ELSE n.timestamp > clock - daysToKeep

\* The filter of clearOldNotifications: not expired, and not older than the
\* cutoff.
ClearKeeps(n, clock, daysToKeep) ==
    IF n.expiresAt # None /\ n.expiresAt[1] < clock THEN FALSE
    ELSE n.timestamp >= clock - daysToKeep

Cleared(list, clock, daysToKeep) ==
    SelectSeqKeep(list, {i \in 1..Len(list) : ClearKeeps(list[i], clock, daysToKeep)})

ReplaceEvents_NotifyAfterReturn(ls, list, saveOk) ==
    <<Ev("store", "", list), SaveEvent(list, saveOk), Ev("return", "", <<>>)>>
    \o notifyListeners(ls, list)

ReplaceEvents_AbortOnSaveFailure(ls, list, saveOk) ==
    IF saveOk
    THEN <<Ev("store", "", list), SaveEvent(list, saveOk)>>
         \o notifyListeners(ls, list) \o <<Ev("return", "", <<>>)>>
    ELSE <<Ev("store", "", list), SaveEvent(list, saveOk), Ev("return", "", <<>>)>>

\* The three methods share one shape: assign the new list, saveNotifications,
\* notifyListeners, return.
ReplaceEvents(ls, list, saveOk) ==
    <<Ev("store", "", list), SaveEvent(list, saveOk)>>
    \o notifyListeners(ls, list) \o <<Ev("return", "", <<>>)>>

ReplaceList(op, list, saveOk) ==
    /\ constructed
    /\ notifications' = list
    /\ storage' = SavedStorage(storage, list, saveOk)
    /\ callTrace' = ReplaceEvents(listeners, list, saveOk)
    /\ callResult' = [op |-> op, status |-> "returned", value |-> None]
    /\ UNCHANGED <<constructed, settings, listeners, now, nextId, pending,
                   settled, resVars, pureVars>>

markAsRead(id, saveOk) ==
    ReplaceList("markAsRead", MarkedRead(notifications, id), saveOk)

markAllAsRead(saveOk) ==
    ReplaceList("markAllAsRead", AllRead(notifications), saveOk)

clearOldNotifications(daysToKeep, saveOk) ==
    ReplaceList("clearOldNotifications", Cleared(notifications, now, daysToKeep),
                saveOk)

----------------------------------------------------------------------------
(* The NotificationService as a state machine *)

NoStorage == [notifications |-> None, notificationSettings |-> None]
NoCall    == [op |-> "none", status |-> "none", value |-> None]

NotifIdle ==
    /\ constructed = FALSE
    /\ settings = getDefaultSettings
    /\ notifications = <<>>
    /\ listeners = <<>>
    /\ storage = NoStorage
    /\ now = 0
    /\ nextId = 0
    /\ pending = {}
    /\ settled = None
    /\ callTrace = <<>>
    /\ callResult = NoCall

ResIdle ==
    /\ resources = <<>>
    /\ resListeners = <<>>
    /\ resNextId = 0
    /\ resCalls = 0
    /\ resLast = None
    /\ resSupplied = None

PureIdle ==
    /\ pin = None
    /\ pout = None

Init == NotifIdle /\ ResIdle /\ PureIdle

\* getInstance() on a page that has none yet.
Construct == \E saveOk \in BOOLEAN : GetInstance(saveOk)

DoSubscribe == \E l \in ListenerIds : Subscribe(l)

DoUnsubscribe == \E l \in ListenerIds : Unsubscribe(l)

DoCreate ==
    \E d \in Drafts, t \in CallTimes, saveOk \in BOOLEAN, pushCapable \in BOOLEAN :
        createNotification(d, t, saveOk, pushCapable)

DoSettle ==
    \E task \in pending : \E o \in Outcomes(task.channel) : SettleSend(task, o)

DoUpdateSettings ==
    \E u \in SettingsUpdates, saveOk \in BOOLEAN : updateSettings(u, saveOk)

\* Creating, dispatching and settling, with subscribers and settings changing.
Next ==
    \/ Construct
    \/ DoSubscribe
    \/ DoUnsubscribe
    \/ DoCreate
    \/ DoSettle
    \/ DoUpdateSettings

Spec == Init /\ [][Next]_vars

----------------------------------------------------------------------------
(* The pure functions of the policy, applied to drawn inputs *)

\* Settings in which only the maps and the quiet-hours window vary.
SettingsWith(categories, priorities, enabled, start, end) ==
    [getDefaultSettings EXCEPT
        !.categories = categories,
        !.priorities = priorities,
        !.quietHours = [enabled |-> enabled, start |-> start, end |-> end,
                        timezone |-> "UTC-5"]]

\* Category and priority maps: the defaults, their negation, and a map that
\* lacks most keys (as a stored settings entry may).
CategoryMaps ==
    {DefaultCategories,
     [c \in Categories |-> ~DefaultCategories[c]],
     [c \in {RESOURCES} |-> TRUE]}
PriorityMaps ==
    {DefaultPriorities,
     [p \in Priorities |-> ~DefaultPriorities[p]],
     [p \in {HIGH} |-> TRUE]}
Windows ==
    {<<TimeStr(22, 0), TimeStr(7, 0)>>, <<TimeStr(9, 0), TimeStr(17, 0)>>}

QuietInputs ==
    [enabled : BOOLEAN, start : TimesOfDay, end : TimesOfDay,
     currentTime : TimesOfDay]

PolicyInputs ==
    [priority : Priorities, category : Categories, categories : CategoryMaps,
     priorities : PriorityMaps, enabled : BOOLEAN, window : Windows,
     currentTime : TimesOfDay]

InitQuiet  == NotifIdle /\ ResIdle /\ pin \in QuietInputs /\ pout = None
InitPolicy == NotifIdle /\ ResIdle /\ pin \in PolicyInputs /\ pout = None

ApplyIsInQuietHours ==
    /\ pout = None
    /\ pout' = Some(isInQuietHours(
                      SettingsWith(DefaultCategories, DefaultPriorities,
                                   pin.enabled, pin.start, pin.end),
                      pin.currentTime))
    /\ UNCHANGED <<pin, notifVars, resVars>>

ApplyShouldSendNotification ==
    /\ pout = None
    /\ pout' = Some(shouldSendNotification(
                      SettingsWith(pin.categories, pin.priorities, pin.enabled,
                                   pin.window[1], pin.window[2]),
                      [priority |-> pin.priority, category |-> pin.category],
                      pin.currentTime))
    /\ UNCHANGED <<pin, notifVars, resVars>>

SpecQuiet  == InitQuiet /\ [][ApplyIsInQuietHours]_vars
SpecPolicy == InitPolicy /\ [][ApplyShouldSendNotification]_vars

----------------------------------------------------------------------------
(* The constructor, given a stored list *)

StoredTimes == {0, 1}
LoadClocks  == {RetentionDays, RetentionDays + 1}

\* What saveNotifications may have left in storage for the notification with
\* this id, as seen at this clock.
StoredEntries(id, clock) ==
    {[id |-> id, priority |-> MEDIUM, category |-> RESOURCES,
      deliveryChannels |-> <<IN_APP>>, isRead |-> r,
      timestamp |-> toISOString(t), expiresAt |-> x] :
        r \in BOOLEAN, t \in StoredTimes,
        x \in {None} \cup {toISOString(clock + d) : d \in {-1, 0, 1}}}

StoredLists(clock) ==
    UNION {{l \in [1..k -> UNION {StoredEntries(i, clock) : i \in 1..k}] :
               \A i \in 1..k : l[i].id = i} : k \in 0..MaxStored}

InitLoad ==
    /\ constructed = FALSE
    /\ settings = getDefaultSettings
    /\ notifications = <<>>
    /\ listeners = <<>>
    /\ now \in LoadClocks
    /\ storage \in {[notifications |-> Some(l), notificationSettings |-> None] :
                      l \in StoredLists(now)}
    /\ nextId = 0
    /\ pending = {}
    /\ settled = None
    /\ callTrace = <<>>
    /\ callResult = NoCall
    /\ ResIdle
    /\ PureIdle

SpecLoad == InitLoad /\ [][Construct]_vars

----------------------------------------------------------------------------
(* The notification list over a session: load, create, read, clear *)

\* Ids of stored notifications (generateId never repeats an id).
StoredId(i) == 100 + i

\* What an earlier session left: nothing, or two notifications, the newer
\* first, and the settings it had updated.
SessionStored(clock) ==
    {<<e1, e2>> :
        e1 \in {e \in StoredEntries(StoredId(1), clock) :
                   ~e.isRead /\ ParseDate(e.timestamp) = 1
                   /\ e.expiresAt \in {None, toISOString(clock - 1)}},
        e2 \in {e \in StoredEntries(StoredId(2), clock) :
                   ParseDate(e.timestamp) = 0 /\ e.expiresAt = None}}

SessionStores(clock) ==
    {NoStorage} \cup
    {[notifications |-> Some(l), notificationSettings |-> st] :
        l \in SessionStored(clock),
        st \in {Some(Spread(getDefaultSettings, u)) : u \in SettingsUpdates}}

InitSession ==
    /\ constructed = FALSE
    /\ settings = getDefaultSettings
    /\ notifications = <<>>
    /\ listeners = <<>>
    /\ now \in LoadClocks
    /\ storage \in SessionStores(now)
    /\ nextId = 0
    /\ pending = {}
    /\ settled = None
    /\ callTrace = <<>>
    /\ callResult = NoCall
    /\ ResIdle
    /\ PureIdle

\* The drafts of this session: one shown in the app, one that is not.
SessionDrafts ==
    {Draft(HIGH, RESOURCES, <<IN_APP, PUSH>>, None),
     Draft(URGENT, ADMINISTRATIVE, <<PUSH, SMS>>, None)}

DoCreateInSession ==
    \E d \in SessionDrafts, saveOk \in BOOLEAN :
        createNotification(d, TimeStr(12, 0), saveOk, FALSE)

\* Ids a caller can pass: those it has seen in the list, and a stale one.
DoMarkAsRead ==
    \E id \in {notifications[i].id : i \in 1..Len(notifications)} \cup {0},
       saveOk \in BOOLEAN :
        markAsRead(id, saveOk)

DoMarkAllAsRead == \E saveOk \in BOOLEAN : markAllAsRead(saveOk)

\* daysToKeep: the default, and a day less.
DoClearOld ==
    \E d \in {RetentionDays, RetentionDays - 1}, saveOk \in BOOLEAN :
        clearOldNotifications(d, saveOk)

DoLoadSettings == loadSettings

NextSession ==
    \/ Construct
    \/ DoSubscribe
    \/ DoUnsubscribe
    \/ DoCreateInSession
    \/ DoMarkAsRead
    \/ DoMarkAllAsRead
    \/ DoClearOld
    \/ DoLoadSettings

SpecSession == InitSession /\ [][NextSession]_vars

----------------------------------------------------------------------------
(* A session that starts from malformed storage *)

MalformedStores ==
    {[notifications |-> l, notificationSettings |-> st] :
        l \in {None, Some(UnparseableList), Some(NotAnArray)},
        st \in {None, Some(UnparseableSettings), Some(NullQuietHours)}}
    \ {NoStorage}

InitMalformed ==
    /\ constructed = FALSE
    /\ settings = getDefaultSettings
    /\ notifications = <<>>
    /\ listeners = <<>>
    /\ now = 0
    /\ storage \in MalformedStores
    /\ nextId = 0
    /\ pending = {}
    /\ settled = None
    /\ callTrace = <<>>
    /\ callResult = NoCall
    /\ ResIdle
    /\ PureIdle

NextMalformed ==
    \/ Construct
    \/ DoSubscribe
    \/ DoUnsubscribe
    \/ DoCreateInSession
    \/ DoMarkAllAsRead

SpecMalformed == InitMalformed /\ [][NextMalformed]_vars

----------------------------------------------------------------------------
(* A long session: notifications age and expire while the page stays open *)

\* What an earlier session stored on day 1: up to MaxStored notifications of
\* day 0 or 1, some expiring around the retention boundary.
AgingEntries(id) ==
    {[id |-> id, priority |-> MEDIUM, category |-> RESOURCES,
      deliveryChannels |-> <<IN_APP>>, isRead |-> FALSE,
      timestamp |-> toISOString(t), expiresAt |-> x] :
        t \in StoredTimes,
        x \in {None, toISOString(RetentionDays), toISOString(RetentionDays + 1)}}

AgingLists ==
    UNION {{l \in [1..k -> UNION {AgingEntries(StoredId(i)) : i \in 1..k}] :
               \A i \in 1..k : l[i].id = StoredId(i)} : k \in 0..MaxStored}

InitAging ==
    /\ constructed = FALSE
    /\ settings = getDefaultSettings
    /\ notifications = <<>>
    /\ listeners = <<>>
    /\ now = 1
    /\ storage \in {[notifications |-> Some(l), notificationSettings |-> None] :
                      l \in AgingLists}
    /\ nextId = 0
    /\ pending = {}
    /\ settled = None
    /\ callTrace = <<>>
    /\ callResult = NoCall
    /\ ResIdle
    /\ PureIdle

\* Time passes while the page is open: the clock reaches the retention
\* boundary or the day after.
AdvanceClock ==
    /\ constructed
    /\ now < RetentionDays
    /\ now' \in LoadClocks
    /\ UNCHANGED <<constructed, settings, notifications, listeners, storage,
                   nextId, pending, settled, callTrace, callResult, resVars,
                   pureVars>>

\* clearOldNotifications() with its default of 30 days.
DoClearDefault ==
    \E saveOk \in BOOLEAN : clearOldNotifications(RetentionDays, saveOk)

NextAging ==
    \/ Construct
    \/ DoSubscribe
    \/ DoUnsubscribe
    \/ AdvanceClock
    \/ DoClearDefault

SpecAging == InitAging /\ [][NextAging]_vars

----------------------------------------------------------------------------
(* One notification sent on several channels *)

\* Drafts addressed to several channels, one of them naming push twice.
DeliveryDrafts ==
    {Draft(URGENT, EMERGENCY, <<IN_APP, PUSH, SMS, PUSH>>, None),
     Draft(HIGH, RESOURCES, <<PUSH, EMAIL>>, None)}

\* The channel switches callers set.
ChannelUpdates ==
    {[channels |-> [c \in Channels |-> TRUE]],
     [channels |-> [c \in Channels |-> c # SMS]]}

DoUpdateChannels == \E u \in ChannelUpdates : updateSettings(u, TRUE)

DoCreateAddressed ==
    \E d \in DeliveryDrafts, saveOk \in BOOLEAN :
        createNotification(d, TimeStr(12, 0), saveOk, TRUE)

NextDelivery ==
    \/ Construct
    \/ DoUpdateChannels
    \/ DoCreateAddressed
    \/ DoSettle

SpecDelivery == Init /\ [][NextDelivery]_vars

----------------------------------------------------------------------------
(* createEmergencyAlert: the severity argument *)

\* A severity string is held as its characters.  The upper-case letters that
\* occur in the inputs, each with its lower-case letter.
UpperLower ==
    {<<"A", "a">>, <<"C", "c">>, <<"D", "d">>, <<"E", "e">>, <<"G", "g">>,
     <<"H", "h">>, <<"I", "i">>, <<"L", "l">>, <<"M", "m">>, <<"N", "n">>,
     <<"O", "o">>, <<"R", "r">>, <<"T", "t">>, <<"U", "u">>, <<"W", "w">>}

\* String.prototype.toLowerCase
toLowerCase(str) ==
    [i \in 1..Len(str) |->
        IF \E p \in UpperLower : p[1] = str[i]
        THEN (CHOOSE p \in UpperLower : p[1] = str[i])[2]
        ELSE str[i]]

SeverityPriority_CaseSensitive(severity) ==
    IF severity = None \/ severity[1] = <<>> THEN CRITICAL
    ELSE LET x == severity[1]
         IN CASE x = <<"l", "o", "w">>                -> LOW
              [] x = <<"m", "e", "d", "i", "u", "m">> -> MEDIUM
              [] x = <<"h", "i", "g", "h">>           -> HIGH
              [] x = <<"u", "r", "g", "e", "n", "t">> -> URGENT
              [] OTHER                                -> CRITICAL

\* Lines 354-373: critical unless a non-empty severity names another level.
\* The argument is optional: None when absent.
SeverityPriority(severity) ==
    IF severity = None \/ severity[1] = <<>> THEN CRITICAL
    ELSE LET x == toLowerCase(severity[1])
         IN CASE x = <<"l", "o", "w">>                -> LOW
              [] x = <<"m", "e", "d", "i", "u", "m">> -> MEDIUM
              [] x = <<"h", "i", "g", "h">>           -> HIGH
              [] x = <<"u", "r", "g", "e", "n", "t">> -> URGENT
              [] OTHER                                -> CRITICAL

\* Lines 375-385: the draft handed to createNotification.
EmergencyDraft(severity) ==
    Draft(SeverityPriority(severity), EMERGENCY, <<IN_APP, PUSH, SMS>>, None)

\* The severities callers pass: absent, empty, the five names in several
\* spellings, and words that name no level.
Severities ==
    {None, Some(<<>>),
     Some(<<"l", "o", "w">>), Some(<<"L", "O", "W">>), Some(<<"L", "o", "w">>),
     Some(<<"m", "e", "d", "i", "u", "m">>), Some(<<"M", "e", "d", "i", "u", "m">>),
     Some(<<"h", "i", "g", "h">>), Some(<<"H", "I", "G", "H">>),
     Some(<<"h", "i", "G", "h">>),
     Some(<<"u", "r", "g", "e", "n", "t">>), Some(<<"U", "R", "G", "E", "N", "T">>),
     Some(<<"c", "r", "i", "t", "i", "c", "a", "l">>),
     Some(<<"C", "r", "i", "t", "i", "c", "a", "l">>),
     Some(<<"s", "e", "v", "e", "r", "e">>), Some(<<" ", "h", "i", "g", "h">>),
     Some(<<"l", "o">>)}

EmergencyInputs ==
    {[severity |-> v, categories |-> c, priorities |-> p, quiet |-> q, time |-> t] :
        v \in Severities, c \in CategoryMaps, p \in PriorityMaps,
        q \in BOOLEAN, t \in CallTimes}

InitEmergency ==
    NotifIdle /\ ResIdle /\ pin \in EmergencyInputs /\ pout = None

\* createEmergencyAlert up to the policy decision of createNotification.
ApplyCreateEmergencyAlert ==
    /\ pout = None
    /\ LET draft == EmergencyDraft(pin.severity)
           s     == SettingsWith(pin.categories, pin.priorities, pin.quiet,
                                 TimeStr(22, 0), TimeStr(7, 0))
       IN pout' = Some([priority |-> draft.priority,
                        category |-> draft.category,
                        accepted |-> shouldSendNotification(s, draft, pin.time)])
    /\ UNCHANGED <<pin, notifVars, resVars>>

SpecEmergency == InitEmergency /\ [][ApplyCreateEmergencyAlert]_vars

----------------------------------------------------------------------------
(* Calls one after another, with pushes still in flight *)

\* An in-app notification whose push is still in flight at the return.
DoCreatePushed ==
    createNotification(Draft(HIGH, RESOURCES, <<IN_APP, PUSH>>, None),
                       TimeStr(12, 0), TRUE, TRUE)

NextOrder ==
    \/ Construct
    \/ DoSubscribe
    \/ DoUnsubscribe
    \/ DoCreatePushed
    \/ DoSettle
    \/ DoMarkAsRead
    \/ DoMarkAllAsRead

SpecOrder == Init /\ [][NextOrder]_vars

----------------------------------------------------------------------------
(* ResourceService: the total string *)

\* A total such as "8/12 (Need: 5)" is held as its pieces: the numbers as
\* printed, and the text between them.
Num(n) == [t |-> "num", n |-> n, s |-> ""]
Str(x) == [t |-> "str", n |-> 0, s |-> x]

\* `${a}/${b}`, `${a}/${b} (Need: ${n})` and `0/${b} (Requested)`.
FormatPlain(a, b)   == <<Num(a), Str("/"), Num(b)>>
FormatNeed(a, b, n) == <<Num(a), Str("/"), Num(b), Str(" (Need: "), Num(n), Str(")")>>
FormatRequested(b)  == <<Num(0), Str("/"), Num(b), Str(" (Requested)")>>

RECURSIVE SplitAt(_, _)
\* String.split(sep): the pieces between the occurrences of sep.
SplitAt(str, sep) ==
    IF \A i \in 1..Len(str) : str[i] # sep THEN <<str>>
    ELSE LET i == CHOOSE k \in 1..Len(str) :
                     str[k] = sep /\ \A j \in 1..(k - 1) : str[j] # sep
         IN <<SubSeq(str, 1, i - 1)>> \o SplitAt(SubSeq(str, i + 1, Len(str)), sep)

\* x.split(' ')[0]: the text before the first space.  Of the pieces of a total
\* only the annotations hold a space, and they start with it.
BeforeSpace(str) ==
    IF \A i \in 1..Len(str) : str[i].t = "num" THEN str
    ELSE LET i == CHOOSE k \in 1..Len(str) :
                     str[k].t = "str" /\ \A j \in 1..(k - 1) : str[j].t = "num"
         IN SubSeq(str, 1, i - 1)

\* parseInt(x, 10) || 0: the number the text starts with, 0 when it starts
\* with none.
ParseIntOr0(str) ==
    IF str # <<>> /\ str[1].t = "num" THEN str[1].n ELSE 0

ParseTotalRequest_WholeNumber(total) ==
    LET parts == SplitAt(total, Str("/"))
        number(x) == IF Len(x) = 1 /\ x[1].t = "num" THEN x[1].n ELSE 0
    IN [a |-> number(parts[1]),
        b |-> IF Len(parts) >= 2 THEN number(parts[2]) ELSE 0]

\* const [a, b] = total.split('/').map(x => parseInt(x, 10) || 0), in a request.
ParseTotalRequest(total) ==
    LET parts == SplitAt(total, Str("/"))
    IN [a |-> ParseIntOr0(parts[1]),
        b |-> IF Len(parts) >= 2 THEN ParseIntOr0(parts[2]) ELSE 0]

\* The same with x.split(' ')[0] first, in a supply.
ParseTotalSupply(total) ==
    LET parts == SplitAt(total, Str("/"))
    IN [a |-> ParseIntOr0(BeforeSpace(parts[1])),
        b |-> IF Len(parts) >= 2 THEN ParseIntOr0(BeforeSpace(parts[2])) ELSE 0]

----------------------------------------------------------------------------
(* ResourceService: addOrUpdateResource *)

Max(a, b) == IF a >= b THEN a ELSE b
Min(a, b) == IF a <= b THEN a ELSE b
Abs(q)    == IF q < 0 THEN -q ELSE q

\* The pairs a of b, b up to 200, for which the floating-point product
\* (a / b) * 100 is just below the half that 100 * a / b is exactly: the
\* quotient a / b is rounded down to a double and the product stays short,
\* as in (23 / 40) * 100 = 57.49999999999999.  For every other pair the
\* product rounds as the exact value does.
ProductBelowHalf ==
    {<<23, 40>>, <<46, 80>>, <<69, 120>>, <<92, 160>>,
     <<29, 200>>, <<57, 200>>, <<113, 200>>, <<115, 200>>}

\* Math.max(0, Math.min(100, Math.round((a / (b || 1)) * 100))) for a >= 0:
\* Math.round takes a half up, and is given the floating-point product.
Progress(a, b) ==
    LET d      == IF b = 0 THEN 1 ELSE b
        halfUp == (200 * a + d) \div (2 * d)
    IN Max(0, Min(100, IF <<a, d>> \in ProductBelowHalf THEN halfUp - 1
                       ELSE halfUp))

\* mapLabel[args.resourceType] || args.resourceType
MapLabel(resourceType) ==
    CASE resourceType = "beds"        -> "Hospital Beds"
      [] resourceType = "icu"         -> "ICU Beds"
      [] resourceType = "oxygen"      -> "Oxygen Tanks"
      [] resourceType = "ventilators" -> "Ventilators"
      [] resourceType = "staff"       -> "Medical Staff"
      [] OTHER                        -> resourceType

Row(id, hospital, resource, status, progress, total, createdDate, dueDate, priority) ==
    [id |-> id, hospital |-> hospital, resource |-> resource, status |-> status,
     progress |-> progress, total |-> total, createdDate |-> createdDate,
     dueDate |-> dueDate, priority |-> priority]

\* The rows the constructor seeds.
SeedResources ==
    <<Row(1, "City General Hospital", "ICU Beds", "Available", 75,
          FormatPlain(8, 12), "02-09-2025", "2h left", "high"),
      Row(2, "Metro Medical Center", "Oxygen Tanks", "In Progress", 45,
          FormatPlain(45, 100), "02-09-2025", "4h left", "medium"),
      Row(3, "Regional Hospital", "Ventilators", "Urgent", 90,
          FormatPlain(2, 5), "02-09-2025", "1h left", "urgent"),
      Row(4, "Community Health", "Staff Nurses", "Available", 60,
          FormatPlain(12, 20), "02-09-2025", "6h left", "low")>>

FindIndex_ByType(rows, hospital, resourceType) ==
    IF \E i \in 1..Len(rows) :
          rows[i].hospital = hospital /\ rows[i].resource = resourceType
    THEN CHOOSE i \in 1..Len(rows) :
            /\ rows[i].hospital = hospital /\ rows[i].resource = resourceType
            /\ \A j \in 1..(i - 1) :
                  ~(rows[j].hospital = hospital /\ rows[j].resource = resourceType)
    ELSE 0

\* findIndex(r => r.hospital === args.hospital && r.resource === label): the
\* first such position, 0 when there is none.
FindIndex(rows, hospital, resourceType) ==
    LET label == MapLabel(resourceType)
    IN IF \E i \in 1..Len(rows) :
             rows[i].hospital = hospital /\ rows[i].resource = label
       THEN CHOOSE i \in 1..Len(rows) :
               /\ rows[i].hospital = hospital /\ rows[i].resource = label
               /\ \A j \in 1..(i - 1) :
                     ~(rows[j].hospital = hospital /\ rows[j].resource = label)
       ELSE 0

RequestOnRow_Consumes(current, absQuantity) ==
    LET ab       == ParseTotalRequest(current.total)
        a        == Max(0, ab.a - absQuantity)
        newTotal == Max(ab.b, absQuantity)
    IN [current EXCEPT
          !.total    = FormatNeed(a, newTotal, absQuantity),
          !.progress = Progress(a, newTotal),
          !.status   = IF a < absQuantity THEN "Urgent"
                       ELSE IF 2 * a < newTotal THEN "In Progress"
                       ELSE "Available",
          !.priority = IF a < absQuantity THEN "urgent" ELSE "high"]

RequestOnRow_Restamped(current, absQuantity) ==
    LET ab       == ParseTotalRequest(current.total)
        a        == ab.a
        newTotal == Max(ab.b, absQuantity)
    IN [current EXCEPT
          !.total       = FormatNeed(a, newTotal, absQuantity),
          !.progress    = Progress(a, newTotal),
          !.status      = IF a < absQuantity THEN "Urgent"
                          ELSE IF 2 * a < newTotal THEN "In Progress"
                          ELSE "Available",
          !.priority    = IF a < absQuantity THEN "urgent" ELSE "high",
          !.createdDate = "today",
          !.dueDate     = "-"]

\* Lines 79-87: a request on an existing row.
RequestOnRow(current, absQuantity) ==
    LET ab       == ParseTotalRequest(current.total)
        a        == ab.a
        newTotal == Max(ab.b, absQuantity)
    IN [current EXCEPT
          !.total    = FormatNeed(a, newTotal, absQuantity),
          !.progress = Progress(a, newTotal),
          !.status   = IF a < absQuantity THEN "Urgent"
                       ELSE IF 2 * a < newTotal THEN "In Progress"
                       ELSE "Available",
          !.priority = IF a < absQuantity THEN "urgent" ELSE "high"]

SupplyOnRow_KeepsNeed(current, quantity) ==
    LET ab           == ParseTotalSupply(current.total)
        newAvailable == Max(0, ab.a + quantity)
        newTotal     == Max(ab.b, newAvailable)
        need         == IF Len(current.total) = 6 THEN current.total[5].n ELSE 0
        short        == newAvailable < need
    IN [current EXCEPT
          !.total    = IF short THEN FormatNeed(newAvailable, newTotal, need)
                       ELSE FormatPlain(newAvailable, newTotal),
          !.progress = Progress(newAvailable, newTotal),
          !.status   = IF short \/ newAvailable <= 3 THEN "Urgent"
                       ELSE IF 2 * newAvailable < newTotal THEN "In Progress"
                       ELSE "Available",
          !.priority = IF short \/ newAvailable <= 3 THEN "urgent"
                       ELSE IF 2 * newAvailable < newTotal THEN "high"
                       ELSE "medium"]

SupplyOnRow_Replace(current, quantity) ==
    LET ab == ParseTotalSupply(current.total)
    IN [current EXCEPT !.total = FormatPlain(quantity, Max(ab.b, quantity))]

SupplyOnRow_KeepCapacity(current, quantity) ==
    LET ab           == ParseTotalSupply(current.total)
        newAvailable == Max(0, ab.a + quantity)
        newTotal     == ab.b
    IN [current EXCEPT
          !.total    = FormatPlain(newAvailable, newTotal),
          !.progress = Progress(newAvailable, newTotal),
          !.status   = IF newAvailable <= 3 THEN "Urgent"
                       ELSE IF 2 * newAvailable < newTotal THEN "In Progress"
                       ELSE "Available",
          !.priority = IF newAvailable <= 3 THEN "urgent"
                       ELSE IF 2 * newAvailable < newTotal THEN "high"
                       ELSE "medium"]

\* Lines 91-104: a supply on an existing row.
SupplyOnRow(current, quantity) ==
    LET ab           == ParseTotalSupply(current.total)
        newAvailable == Max(0, ab.a + quantity)
        newTotal     == Max(ab.b, newAvailable)
    IN [current EXCEPT
          !.total    = FormatPlain(newAvailable, newTotal),
          !.progress = Progress(newAvailable, newTotal),
          !.status   = IF newAvailable <= 3 THEN "Urgent"
                       ELSE IF 2 * newAvailable < newTotal THEN "In Progress"
                       ELSE "Available",
          !.priority = IF newAvailable <= 3 THEN "urgent"
                       ELSE IF 2 * newAvailable < newTotal THEN "high"
                       ELSE "medium"]

Today == "today"

\* The arguments callers hand in.
Hospitals     == {"City General Hospital", "X"}
ResourceTypes == {"icu", "ICU Beds", "oxygen"}
Quantities    == {-12, -3, 0, 3, 4, 5, 10}

NewRequestRow_FlooredCapacity(id, hospital, label, absQuantity) ==
    Row(id, hospital, label, "Urgent", 0, FormatRequested(Max(10, absQuantity)),
        Today, "-", "urgent")

\* Lines 111-121: the row a request creates.
NewRequestRow(id, hospital, label, absQuantity) ==
    Row(id, hospital, label, "Urgent", 0, FormatRequested(absQuantity),
        Today, "-", "urgent")

NewSupplyRow_Unfloored(id, hospital, label, quantity) ==
    Row(id, hospital, label,
        IF quantity <= 3 THEN "Urgent"
        ELSE IF quantity < 10 THEN "In Progress" ELSE "Available",
        Progress(quantity, quantity),
        FormatPlain(quantity, quantity),
        Today, "-",
        IF quantity <= 3 THEN "urgent"
        ELSE IF quantity < 10 THEN "high" ELSE "medium")

\* Lines 125-135: the row a supply creates.
NewSupplyRow(id, hospital, label, quantity) ==
    Row(id, hospital, label,
        IF quantity <= 3 THEN "Urgent"
        ELSE IF quantity < 10 THEN "In Progress" ELSE "Available",
        Progress(quantity, Max(10, quantity)),
        FormatPlain(quantity, Max(10, quantity)),
        Today, "-",
        IF quantity <= 3 THEN "urgent"
        ELSE IF quantity < 10 THEN "high" ELSE "medium")

\* The first number of a row's total: its available count.
AvailableOf(r) == ParseTotalSupply(r.total).a

\* The count of the first row of a hospital and label, None when it has no row.
FirstCount(rows, hospital, label) ==
    IF \E i \in 1..Len(rows) : rows[i].hospital = hospital /\ rows[i].resource = label
    THEN Some(AvailableOf(rows[CHOOSE i \in 1..Len(rows) :
                  rows[i].hospital = hospital /\ rows[i].resource = label]))
    ELSE None

\* What has been supplied to each hospital and label since its row appeared:
\* base is the row's count when it appeared, sum the supplies added since.
SuppliedAtStart ==
    [pr \in Hospitals \X {MapLabel(rt) : rt \in ResourceTypes} |->
        [base |-> FirstCount(SeedResources, pr[1], pr[2]), sum |-> 0]]

Supplied(old, rows, hospital, label, quantity, idx) ==
    [old EXCEPT ![<<hospital, label>>] =
        IF idx = 0 THEN [base |-> FirstCount(rows, hospital, label), sum |-> 0]
        ELSE IF quantity >= 0 THEN [@ EXCEPT !.sum = @ + quantity]
        ELSE @]

\* The listener functions of the resource table views.
ResListenerIds == {"R1", "R2"}

Prepended_AtEnd(created, rows) == rows \o <<created>>

\* [created, ...this.resources] (lines 122, 136)
Prepended(created, rows) == <<created>> \o rows

emit_SkipsFirst(ls, rows) ==
    [i \in 1..(Len(ls) - 1) |-> Ev("notify", ls[i + 1], rows)]

\* emit(): forEach over the listeners, in registration order.
emit(ls, rows) == [i \in 1..Len(ls) |-> Ev("notify", ls[i], rows)]

\* The call itself, as a caller that does more in the same turn makes it.
addOrUpdateResourceCall(hospital, resourceType, quantity) ==
    /\ resCalls < MaxResCalls
    /\ LET label       == MapLabel(resourceType)
           isRequest   == quantity < 0
           absQuantity == Abs(quantity)
           idx         == FindIndex(resources, hospital, resourceType)
           rows        ==
             IF idx >= 1
             THEN [resources EXCEPT
                     ![idx] = IF isRequest
                              THEN RequestOnRow(resources[idx], absQuantity)
                              ELSE SupplyOnRow(resources[idx], quantity)]
             ELSE IF isRequest
             THEN Prepended(NewRequestRow(resNextId + 1, hospital, label, absQuantity),
                            resources)
             ELSE Prepended(NewSupplyRow(resNextId + 1, hospital, label, quantity),
                            resources)
       IN /\ resources' = rows
          /\ resNextId' = IF idx >= 1 THEN resNextId ELSE resNextId + 1
          /\ resLast' = Some([hospital |-> hospital, resourceType |-> resourceType,
                              quantity |-> quantity, idx |-> idx,
                              emitted |-> emit(resListeners, rows)])
          /\ resSupplied' = Some(Supplied(resSupplied[1], rows, hospital, label,
                                           quantity, idx))
    /\ resCalls' = resCalls + 1
    /\ UNCHANGED resListeners

addOrUpdateResource(hospital, resourceType, quantity) ==
    /\ addOrUpdateResourceCall(hospital, resourceType, quantity)
    /\ UNCHANGED <<notifVars, pureVars>>

ResSubscribe(l) ==
    /\ l \notin Range(resListeners)
    /\ resListeners' = Append(resListeners, l)
    /\ UNCHANGED <<resources, resNextId, resCalls, resLast, resSupplied,
                 notifVars, pureVars>>

ResUnsubscribe(l) ==
    /\ l \in Range(resListeners)
    /\ resListeners' = SelectSeqKeep(resListeners,
                          {i \in 1..Len(resListeners) : resListeners[i] # l})
    /\ UNCHANGED <<resources, resNextId, resCalls, resLast, resSupplied,
                 notifVars, pureVars>>

DoAddOrUpdate ==
    \E h \in Hospitals, rt \in ResourceTypes, q \in Quantities :
        addOrUpdateResource(h, rt, q)

DoResSubscribe == \E l \in ResListenerIds : ResSubscribe(l)

DoResUnsubscribe == \E l \in ResListenerIds : ResUnsubscribe(l)

\* ResourceService.getInstance() has run: the seeded inventory.
InitRes ==
    /\ resources = SeedResources
    /\ resListeners = <<>>
    /\ resNextId = Len(SeedResources)
    /\ resCalls = 0
    /\ resLast = None
    /\ resSupplied = Some(SuppliedAtStart)
    /\ NotifIdle
    /\ PureIdle

NextRes ==
    \/ DoAddOrUpdate
    \/ DoResSubscribe
    \/ DoResUnsubscribe

SpecRes == InitRes /\ [][NextRes]_vars

----------------------------------------------------------------------------
(* ResourceService with larger stocks *)

\* A request for 40 or 8 units and supplies of 23, 3 and 0.
LargeQuantities == {-40, -8, 0, 3, 23}

DoAddOrUpdateLarge ==
    \E h \in Hospitals, q \in LargeQuantities : addOrUpdateResource(h, "icu", q)

NextResLarge ==
    \/ DoAddOrUpdateLarge
    \/ DoResSubscribe
    \/ DoResUnsubscribe

SpecResLarge == InitRes /\ [][NextResLarge]_vars

----------------------------------------------------------------------------
(* ResourceService over a restart of the page *)

\* The page is reloaded and getInstance() runs again: the module state is
\* gone and the constructor seeds the list anew.  The service reads and writes
\* no storage.
ResRestart ==
    /\ resLast # None
    /\ resources' = SeedResources
    /\ resListeners' = <<>>
    /\ resNextId' = Len(SeedResources)
    /\ resLast' = None
    /\ resSupplied' = Some(SuppliedAtStart)
    /\ UNCHANGED <<resCalls, notifVars, pureVars>>

NextResRestart ==
    \/ DoAddOrUpdate
    \/ DoResSubscribe
    \/ DoResUnsubscribe
    \/ ResRestart

SpecResRestart == InitRes /\ [][NextResRestart]_vars

----------------------------------------------------------------------------
(* Both services with their subscribers *)

\* One in-app notification, written and not pushed.
DoCreateInApp ==
    createNotification(Draft(HIGH, RESOURCES, <<IN_APP, PUSH>>, None),
                       TimeStr(12, 0), TRUE, FALSE)

DoMarkAllStored == markAllAsRead(TRUE)

\* A request or a supply for one pair that has no row at the start.
DoAddOrUpdateOne ==
    \E q \in {-3, 4} : addOrUpdateResource("X", "icu", q)

NextBroadcast ==
    \/ Construct
    \/ DoSubscribe
    \/ DoUnsubscribe
    \/ DoCreateInApp
    \/ DoMarkAllStored
    \/ DoResSubscribe
    \/ DoResUnsubscribe
    \/ DoAddOrUpdateOne

\* Both singletons on one page: the inventory is seeded, the notification
\* service not yet constructed.
SpecBroadcast == InitRes /\ [][NextBroadcast]_vars

----------------------------------------------------------------------------
(* A view that mounts after the services exist *)

\* Both singletons on a page that an earlier session left notifications on:
\* the inventory is seeded, the notification service not yet constructed.
InitViews ==
    /\ constructed = FALSE
    /\ settings = getDefaultSettings
    /\ notifications = <<>>
    /\ listeners = <<>>
    /\ now \in LoadClocks
    /\ storage \in SessionStores(now)
    /\ nextId = 0
    /\ pending = {}
    /\ settled = None
    /\ callTrace = <<>>
    /\ callResult = NoCall
    /\ resources = SeedResources
    /\ resListeners = <<>>
    /\ resNextId = Len(SeedResources)
    /\ resCalls = 0
    /\ resLast = None
    /\ resSupplied = Some(SuppliedAtStart)
    /\ PureIdle

NextViews ==
    \/ Construct
    \/ DoLoadSettings
    \/ DoSubscribe
    \/ DoMarkAllAsRead
    \/ DoClearOld
    \/ DoResSubscribe
    \/ DoAddOrUpdateOne

SpecViews == InitViews /\ [][NextViews]_vars

----------------------------------------------------------------------------
(* Subscribers that call the service back, or throw *)

\* subscribe takes any function.  Reader is a view that calls markAllAsRead()
\* when it is handed a list with an unread notification; Thrower is a
\* callback that throws; L2 only takes the list.
CallbackIds == {"Reader", "Thrower", "L2"}

HasUnread(list) == \E i \in 1..Len(list) : ~list[i].isRead

\* notifyListeners(list) when no listener calls back: forEach stops at the
\* first callback that throws, and the exception leaves notifyListeners.
RECURSIVE DeliverPlain(_, _, _)
DeliverPlain(ls, k, list) ==
    IF k > Len(ls) THEN [events |-> <<>>, threw |-> FALSE]
    ELSE IF ls[k] = "Thrower"
    THEN [events |-> <<Ev("notify", ls[k], list), Ev("throw", ls[k], <<>>)>>,
          threw |-> TRUE]
    ELSE LET rest == DeliverPlain(ls, k + 1, list)
         IN [events |-> <<Ev("notify", ls[k], list)>> \o rest.events,
             threw |-> rest.threw]

\* notifyListeners(list) from position k on, with the callbacks run in place.
\* list is the argument, fixed for the whole forEach; cur and sto are
\* this.notifications and the storage, which a callback's markAllAsRead()
\* changes before the next listener is called.  The broadcast of that nested
\* call hands out a list without unread entries, so it nests no further.
RECURSIVE Deliver(_, _, _, _, _)
Deliver(ls, k, list, cur, sto) ==
    IF k > Len(ls)
    THEN [events |-> <<>>, cur |-> cur, sto |-> sto, threw |-> FALSE]
    ELSE IF ls[k] = "Thrower"
    THEN [events |-> <<Ev("notify", ls[k], list), Ev("throw", ls[k], <<>>)>>,
          cur |-> cur, sto |-> sto, threw |-> TRUE]
    ELSE IF ls[k] = "Reader" /\ HasUnread(list)
    THEN LET read   == AllRead(cur)
             saved  == SavedStorage(sto, read, TRUE)
             nested == DeliverPlain(ls, 1, read)
             inner  == <<Ev("notify", ls[k], list), Ev("store", "", read),
                         SaveEvent(read, TRUE)>> \o nested.events
         IN IF nested.threw
            THEN [events |-> inner, cur |-> read, sto |-> saved, threw |-> TRUE]
            ELSE LET rest == Deliver(ls, k + 1, list, read, saved)
                 IN [events |-> inner \o <<Ev("return", "", <<>>)>> \o rest.events,
                     cur |-> rest.cur, sto |-> rest.sto, threw |-> rest.threw]
    ELSE LET rest == Deliver(ls, k + 1, list, cur, sto)
         IN [events |-> <<Ev("notify", ls[k], list)>> \o rest.events,
             cur |-> rest.cur, sto |-> rest.sto, threw |-> rest.threw]

\* createNotification of an in-app draft with such subscribers: the list is
\* assigned, notifyListeners runs, and only when it returns come
\* saveNotifications(), the policy and the sends.  An exception out of
\* notifyListeners rejects the promise of the async method.
createNotificationWithCallbacks(draft, currentTime) ==
    /\ constructed
    /\ nextId < MaxNotifs
    /\ IN_APP \in Range(draft.deliveryChannels)
    /\ LET n        == NewNotification(draft, nextId + 1, now)
           list     == <<n>> \o notifications
           d        == Deliver(listeners, 1, list, list, storage)
           accepted == shouldSendNotification(settings, n, currentTime)
       IN /\ nextId' = nextId + 1
          /\ notifications' = d.cur
          /\ storage' = IF d.threw THEN d.sto
                        ELSE SavedStorage(d.sto, d.cur, TRUE)
          /\ callTrace' =
                <<Ev("store", "", list)>> \o d.events
                \o (IF d.threw THEN <<>>
                    ELSE <<SaveEvent(d.cur, TRUE)>>
                         \o DispatchEvents(settings, n, accepted)
                         \o <<Ev("return", "", <<>>)>>)
          /\ callResult' =
                IF d.threw
                THEN [op |-> "createNotification", status |-> "rejected",
                      value |-> None]
                ELSE [op |-> "createNotification", status |-> "resolved",
                      value |-> Some(n)]
    /\ UNCHANGED <<constructed, settings, listeners, now, pending, settled,
                   resVars, pureVars>>

\* markAsRead, markAllAsRead and clearOldNotifications with such subscribers:
\* the list is assigned and saved, then notifyListeners runs; an exception out
\* of it leaves the method.
ReplaceListWithCallbacks(op, list) ==
    /\ constructed
    /\ LET d == Deliver(listeners, 1, list, list, SavedStorage(storage, list, TRUE))
       IN /\ notifications' = d.cur
          /\ storage' = d.sto
          /\ callTrace' =
                <<Ev("store", "", list), SaveEvent(list, TRUE)>> \o d.events
                \o (IF d.threw THEN <<>> ELSE <<Ev("return", "", <<>>)>>)
          /\ callResult' = [op |-> op,
                            status |-> IF d.threw THEN "threw" ELSE "returned",
                            value |-> None]
    /\ UNCHANGED <<constructed, settings, listeners, now, nextId, pending,
                   settled, resVars, pureVars>>

DoSubscribeCallback == \E l \in CallbackIds : Subscribe(l)

DoUnsubscribeCallback == \E l \in CallbackIds : Unsubscribe(l)

DoCreateWithCallbacks ==
    \E p \in {HIGH, URGENT} :
        createNotificationWithCallbacks(
            Draft(p, RESOURCES, <<IN_APP, PUSH>>, None), TimeStr(12, 0))

DoMarkAsReadWithCallbacks ==
    \E id \in 1..MaxNotifs :
        ReplaceListWithCallbacks("markAsRead", MarkedRead(notifications, id))

DoMarkAllAsReadWithCallbacks ==
    ReplaceListWithCallbacks("markAllAsRead", AllRead(notifications))

DoClearOldWithCallbacks ==
    ReplaceListWithCallbacks("clearOldNotifications",
                             Cleared(notifications, now, RetentionDays))

NextCallbacks ==
    \/ Construct
    \/ DoSubscribeCallback
    \/ DoUnsubscribeCallback
    \/ DoCreateWithCallbacks
    \/ DoMarkAsReadWithCallbacks
    \/ DoMarkAllAsReadWithCallbacks
    \/ DoClearOldWithCallbacks

SpecCallbacks == Init /\ [][NextCallbacks]_vars

----------------------------------------------------------------------------
(* The forms: EmergencyAlert, ResourceRequestModal, DoctorAdminPanel *)

trim_Identity(str) == str

\* String.prototype.trim on the texts users type here.
trim(str) ==
    CASE str = " "     -> ""
      [] str = "   "   -> ""
      [] str = " X "   -> "X"
      [] OTHER         -> str

\* The useState initial values, which are also what a submit resets to.
AlertInitial ==
    [type |-> "medical", severity |-> <<"m", "e", "d", "i", "u", "m">>,
     description |-> "", location |-> "", contact |-> ""]

RequestInitial ==
    [resourceType |-> "", quantity |-> 1,
     priority |-> <<"m", "e", "d", "i", "u", "m">>,
     description |-> "", hospital |-> ""]

AdminInitial ==
    [hospital |-> "", resourceType |-> "beds", quantity |-> 1, note |-> ""]

\* What users fill in before they press submit.
AlertEntries ==
    {[AlertInitial EXCEPT !.severity = <<"h", "i", "g", "h">>,
                          !.location = "Ward 3", !.contact = "555",
                          !.description = "fire"],
     [AlertInitial EXCEPT !.contact = "555", !.description = "fire"],
     [AlertInitial EXCEPT !.location = "Ward 3", !.contact = "   ",
                          !.description = "fire"],
     [AlertInitial EXCEPT !.location = "Ward 3", !.contact = "555",
                          !.description = "   "]}

RequestEntries ==
    {[RequestInitial EXCEPT !.resourceType = "icu", !.quantity = 12,
                            !.priority = <<"u", "r", "g", "e", "n", "t">>,
                            !.hospital = "X"],
     [RequestInitial EXCEPT !.hospital = "X"],
     [RequestInitial EXCEPT !.resourceType = "icu", !.hospital = "   "]}

AdminEntries ==
    {[AdminInitial EXCEPT !.hospital = "X", !.resourceType = "icu",
                          !.quantity = 4],
     [AdminInitial EXCEPT !.hospital = "City General Hospital"],
     [AdminInitial EXCEPT !.hospital = "   ", !.resourceType = "icu"]}

FormEntries(form) ==
    CASE form = "alert"   -> AlertEntries
      [] form = "request" -> RequestEntries
      [] form = "admin"   -> AdminEntries

\* The onChange handlers: the user fills in one of the forms.  pout holds
\* what the latest submit did, until the next edit.
EditForm(form, data) ==
    /\ pin # None
    /\ pin' = Some([pin[1] EXCEPT ![form] = data])
    /\ pout' = None
    /\ UNCHANGED <<notifVars, resVars>>

Outcome(form, submitted, message) ==
    Some([form |-> form, submitted |-> submitted, message |-> message])

\* EmergencyAlert.handleSubmit, with Dashboard.handleEmergencyAlert as its
\* onSubmit: createEmergencyAlert is called in the same turn.
EmergencyAlert_handleSubmit ==
    /\ pin # None
    /\ LET d == pin[1].alert
       IN IF trim(d.location) = "" \/ trim(d.contact) = ""
             \/ trim(d.description) = ""
          THEN /\ pout' = Outcome("alert", FALSE, "alert")
               /\ UNCHANGED <<pin, notifVars, resVars>>
          ELSE /\ createNotificationCall(EmergencyDraft(Some(d.severity)),
                                         TimeStr(12, 0), TRUE, FALSE)
               /\ pin' = Some([pin[1] EXCEPT !.alert = AlertInitial])
               /\ pout' = Outcome("alert", TRUE, "")
               /\ UNCHANGED resVars

\* createResourceRequest, lines 408-423 and 441-450: the priority of the
\* request, medium when it names none of the four.
ResourceRequestDraft(priority) ==
    LET x == toLowerCase(priority)
    IN Draft(CASE x = <<"l", "o", "w">>                -> LOW
               [] x = <<"h", "i", "g", "h">>           -> HIGH
               [] x = <<"u", "r", "g", "e", "n", "t">> -> URGENT
               [] OTHER                                -> MEDIUM,
             RESOURCES, <<IN_APP, PUSH>>, None)

\* ResourceRequestModal.handleSubmit, with Dashboard.handleResourceRequest
\* as its onSubmit: the request is entered as a negative quantity and
\* announced.
ResourceRequestModal_handleSubmit ==
    /\ pin # None
    /\ LET d == pin[1].request
       IN IF d.resourceType = "" \/ trim(d.hospital) = ""
          THEN /\ pout' = Outcome("request", FALSE, "alert")
               /\ UNCHANGED <<pin, notifVars, resVars>>
          ELSE /\ addOrUpdateResourceCall(d.hospital, d.resourceType,
                                          0 - d.quantity)
               /\ createNotificationCall(ResourceRequestDraft(d.priority),
                                         TimeStr(12, 0), TRUE, FALSE)
               /\ pin' = Some([pin[1] EXCEPT !.request = RequestInitial])
               /\ pout' = Outcome("request", TRUE, "")

\* DoctorAdminPanel.submitResource
DoctorAdminPanel_submitResource ==
    /\ pin # None
    /\ LET d == pin[1].admin
       IN IF trim(d.hospital) = ""
          THEN /\ pout' = Outcome("admin", FALSE, "Please enter a hospital name")
               /\ UNCHANGED <<pin, notifVars, resVars>>
          ELSE /\ addOrUpdateResourceCall(d.hospital, d.resourceType, d.quantity)
               /\ createNotificationCall(
                      Draft(MEDIUM, RESOURCES, <<IN_APP, PUSH>>, None),
                      TimeStr(12, 0), TRUE, FALSE)
               /\ IF callResult'.status = "resolved"
                  THEN /\ pin' = Some([pin[1] EXCEPT !.admin = AdminInitial])
                       /\ pout' = Outcome("admin", TRUE, "Successfully added")
                  ELSE /\ pin' = pin
                       /\ pout' = Outcome("admin", TRUE, "Error updating resource")

DoEdit ==
    \E form \in {"alert", "request", "admin"} :
        \E data \in FormEntries(form) : EditForm(form, data)

\* The page is up: both services exist and the three forms are empty.
InitForms ==
    /\ resources = SeedResources
    /\ resListeners = <<>>
    /\ resNextId = Len(SeedResources)
    /\ resCalls = 0
    /\ resLast = None
    /\ resSupplied = Some(SuppliedAtStart)
    /\ NotifIdle
    /\ pin = Some([alert |-> AlertInitial, request |-> RequestInitial,
                   admin |-> AdminInitial])
    /\ pout = None

NextForms ==
    \/ Construct
    \/ DoEdit
    \/ EmergencyAlert_handleSubmit
    \/ ResourceRequestModal_handleSubmit
    \/ DoctorAdminPanel_submitResource

SpecForms == InitForms /\ [][NextForms]_vars

----------------------------------------------------------------------------
(* Properties: createNotification *)

IsNotify(e) == e.ev = "notify"
IsSend(e)   == e.ev = "send"

\* The step is a createNotification call: it is the one that hands out an id.
CreateStep == nextId' = nextId + 1

\* The notification the latest createNotification call returned.
Created == callResult.value[1]

AfterCreate == callResult.op = "createNotification"

PolicyAccepted(trace) ==
    \E i \in 1..Len(trace) : trace[i].ev = "policy" /\ trace[i].who = "accept"
PolicyRejected(trace) ==
    \E i \in 1..Len(trace) : trace[i].ev = "policy" /\ trace[i].who = "reject"

SentChannels(trace) == {trace[i].who : i \in {j \in 1..Len(trace) : IsSend(trace[j])}}

\* C1: a createNotification call whose draft has the in-app channel puts the
\* new notification at the head of the list, in front of the list as it was,
\* and calls every registered subscriber, in order, with a list headed by that
\* notification; all of this comes before any channel send is started and
\* before the call returns, whatever the policy decides and whatever the
\* settings are.
C1_BroadcastBeforeSend ==
    [][CreateStep =>
        LET n      == callResult'.value[1]
            trace  == callTrace'
            notifs == SelectSeq(trace, IsNotify)
        IN IN_APP \in Range(n.deliveryChannels) =>
             /\ notifications' = <<n>> \o notifications
             /\ Len(notifs) = Len(listeners)
             /\ \A i \in 1..Len(notifs) :
                   /\ notifs[i].who = listeners[i]
                   /\ notifs[i].list = notifications'
                   /\ Head(notifs[i].list) = n
             /\ \A i, j \in 1..Len(trace) :
                   (trace[i].ev \in {"store", "notify"}
                       /\ trace[j].ev \in {"send", "return"}) => i < j
             /\ trace[Len(trace)].ev = "return"
             /\ callResult'.status = "resolved"]_vars

\* C1 witness: an in-app notification was created onto a non-empty list with
\* two subscribers registered, the in-app channel disabled in settings and the
\* policy rejecting it; both subscribers were called.
C1_Witness ==
    /\ AfterCreate
    /\ IN_APP \in Range(Created.deliveryChannels)
    /\ Len(notifications) = 2
    /\ Len(listeners) = 2
    /\ ~settings.channels[IN_APP]
    /\ PolicyRejected(callTrace)
    /\ Len(SelectSeq(callTrace, IsNotify)) = 2

Bypasses(n) ==
    n.priority \in {URGENT, CRITICAL} \/ n.category = EMERGENCY

\* C5: a createNotification call starts a send on exactly the channels that
\* are in the notification's deliveryChannels and enabled in the settings of
\* that moment when the policy accepts it, and on none when the policy rejects
\* it; an urgent, critical or emergency notification is accepted, and is still
\* sent only on the enabled channels.
C5_SendsOnEnabledChannelsOnly ==
    [][CreateStep =>
        LET n       == callResult'.value[1]
            enabled == {c \in Range(n.deliveryChannels) :
                           c \in DOMAIN settings.channels /\ settings.channels[c]}
        IN /\ PolicyAccepted(callTrace') \/ PolicyRejected(callTrace')
           /\ PolicyAccepted(callTrace') => SentChannels(callTrace') = enabled
           /\ PolicyRejected(callTrace') => SentChannels(callTrace') = {}
           /\ Bypasses(n) => PolicyAccepted(callTrace')
           /\ {t.channel : t \in pending' \ pending} \subseteq SentChannels(callTrace')
           /\ \A t \in pending' \ pending : t.id = n.id]_vars

\* C5 witness: an emergency notification addressed to in-app, push and SMS was
\* created while SMS is disabled: sends were started on in-app and push, none
\* on SMS.
C5_Witness ==
    /\ AfterCreate
    /\ Created.category = EMERGENCY
    /\ SMS \in Range(Created.deliveryChannels)
    /\ ~settings.channels[SMS]
    /\ SentChannels(callTrace) = {IN_APP, PUSH}

\* The step settles a channel send that was in flight.
SettleStep == pending' # pending /\ pending' \subseteq pending

\* C6: a createNotification call resolves with the created notification
\* whether or not sends are still in flight, and a send that settles later,
\* failed or not, changes neither what the call returned nor the list.
C6_CreateIndependentOfDelivery ==
    [][/\ CreateStep =>
            /\ callResult'.op = "createNotification"
            /\ callResult'.status = "resolved"
            /\ callResult'.value[1].id = nextId'
       /\ SettleStep =>
            /\ notifications' = notifications
            /\ callResult' = callResult]_vars

\* C6 witness: the push send of a notification failed after the call had
\* resolved; the notification is in the list and another send is in flight.
C6_Witness ==
    /\ AfterCreate
    /\ callResult.status = "resolved"
    /\ settled # None
    /\ settled[1].outcome = "failed"
    /\ \E i \in 1..Len(notifications) : notifications[i].id = settled[1].task.id
    /\ pending # {}

----------------------------------------------------------------------------
(* Properties: the delivery policy *)

\* The quiet-hours window as the minutes of the day: both ends inclusive, and
\* a window whose start is after its end wraps midnight.
InWindow(start, end, t) ==
    LET S == MinuteOfDay(start)
        E == MinuteOfDay(end)
        N == MinuteOfDay(t)
    IN \/ S > E /\ (N >= S \/ N <= E)
       \/ S <= E /\ S <= N /\ N <= E

\* C2: shouldSendNotification is true for every notification that is urgent,
\* critical or of the emergency category, whatever the settings.
C2_BypassAlwaysSends ==
    (pout # None /\ Bypasses(pin)) => pout[1] = TRUE

\* C2 witness: a low-priority emergency notification, with the emergency
\* category and the low priority disabled and quiet hours active, is sent.
C2_Witness ==
    /\ pout = Some(TRUE)
    /\ pin.category = EMERGENCY
    /\ pin.priority = LOW
    /\ ~Truthy(pin.categories, EMERGENCY)
    /\ ~Truthy(pin.priorities, LOW)
    /\ pin.enabled
    /\ InWindow(pin.window[1], pin.window[2], pin.currentTime)

\* C3: for a notification that does not bypass, shouldSendNotification is true
\* exactly when its category is enabled, its priority is enabled and the
\* current time is outside the quiet hours.
C3_PolicyForOrdinary ==
    (pout # None /\ ~Bypasses(pin)) =>
        pout[1] = (/\ Truthy(pin.categories, pin.category)
                   /\ Truthy(pin.priorities, pin.priority)
                   /\ ~(pin.enabled
                        /\ InWindow(pin.window[1], pin.window[2], pin.currentTime)))

\* C3 witness: an ordinary notification whose category is enabled and whose
\* time is outside the quiet hours is refused because its priority is
\* disabled.
C3_Witness ==
    /\ pout = Some(FALSE)
    /\ ~Bypasses(pin)
    /\ Truthy(pin.categories, pin.category)
    /\ ~Truthy(pin.priorities, pin.priority)
    /\ ~(pin.enabled /\ InWindow(pin.window[1], pin.window[2], pin.currentTime))

QuietCase(start, end, t) ==
    pin.enabled /\ pin.start = start /\ pin.end = end /\ pin.currentTime = t

\* C4: with quiet hours enabled isInQuietHours is true exactly for the times in
\* the window, both ends inclusive, wrapping midnight when start is after end
\* (22:00-07:00 holds 23:30 and 03:00, not 12:00; 09:00-17:00 holds 10:00, not
\* 18:00); with quiet hours disabled it is false.
C4_QuietHoursWindow ==
    pout # None =>
        /\ pout[1] = (pin.enabled /\ InWindow(pin.start, pin.end, pin.currentTime))
        /\ QuietCase(TimeStr(22, 0), TimeStr(7, 0), TimeStr(23, 30)) => pout[1]
        /\ QuietCase(TimeStr(22, 0), TimeStr(7, 0), TimeStr(3, 0)) => pout[1]
        /\ QuietCase(TimeStr(22, 0), TimeStr(7, 0), TimeStr(12, 0)) => ~pout[1]
        /\ QuietCase(TimeStr(9, 0), TimeStr(17, 0), TimeStr(10, 0)) => pout[1]
        /\ QuietCase(TimeStr(9, 0), TimeStr(17, 0), TimeStr(18, 0)) => ~pout[1]
        /\ ~pin.enabled => ~pout[1]

\* C4 witness: 07:00, the last minute of the window 22:00-07:00, is in quiet
\* hours.
C4_Witness ==
    /\ pout = Some(TRUE)
    /\ QuietCase(TimeStr(22, 0), TimeStr(7, 0), TimeStr(7, 0))

----------------------------------------------------------------------------
(* Properties: loading *)

\* A stored entry the load keeps: not expired, and not older than 30 days.
KeptAtLoad(e) ==
    /\ ~(e.expiresAt # None /\ e.expiresAt[2] < now)
    /\ ~(now - e.timestamp[2] > RetentionDays)

IsOkSave(e) == e.ev = "save" /\ e.who = "ok"

\* C7: the constructor leaves in memory exactly the stored notifications that
\* are neither expired nor older than 30 days, in stored order and otherwise
\* unchanged; one with no expiresAt and an age of at most 30 days is kept; and
\* when one was dropped the stored list is written again, holding the kept
\* ones once the write succeeds.
C7_LoadPrunes ==
    [][(~constructed /\ constructed' /\ storage.notifications # None) =>
        LET stored == storage.notifications[1]
            kept   == SelectSeq(stored, KeptAtLoad)
        IN /\ Serialize(notifications') = kept
           /\ \A i \in 1..Len(stored) :
                 (stored[i].expiresAt = None
                     /\ now - stored[i].timestamp[2] <= RetentionDays)
                 => \E j \in 1..Len(notifications') :
                       notifications'[j].id = stored[i].id
           /\ Len(kept) # Len(stored) =>
                 /\ \E i \in 1..Len(callTrace') : callTrace'[i].ev = "save"
                 /\ (\E i \in 1..Len(callTrace') : IsOkSave(callTrace'[i]))
                    => storage'.notifications = Some(kept)]_vars

\* C7 witness: of two stored notifications one was dropped and the one kept is
\* exactly 30 days old with no expiresAt; the stored list was written again.
C7_Witness ==
    /\ constructed
    /\ Len(notifications) = 1
    /\ now - notifications[1].timestamp = RetentionDays
    /\ notifications[1].expiresAt = None
    /\ \E i \in 1..Len(callTrace) : IsOkSave(callTrace[i])
    /\ storage.notifications = Some(Serialize(notifications))

----------------------------------------------------------------------------
(* Properties: addOrUpdateResource *)

\* The two numbers a row's total shows.
Available(r) == r.total[1].n
Capacity(r)  == r.total[3].n

RowsOf(rows, hospital, label) ==
    {i \in 1..Len(rows) : rows[i].hospital = hospital /\ rows[i].resource = label}

\* The step is an addOrUpdateResource call.
ResCallStep == resCalls' = resCalls + 1

\* The label the spec gives for a resource type.
LabelOf(resourceType) ==
    IF resourceType = "icu" THEN "ICU Beds"
    ELSE IF resourceType = "oxygen" THEN "Oxygen Tanks"
    ELSE resourceType

\* C8: the list never holds two rows with the same hospital and resource
\* label, and a call finds or makes exactly one row for its hospital and the
\* label of its resource type, so that 'icu' and 'ICU Beds' share a row.
C8_OneRowPerPair ==
    /\ \A i, j \in 1..Len(resources) :
          (resources[i].hospital = resources[j].hospital
              /\ resources[i].resource = resources[j].resource) => i = j
    /\ resLast # None =>
          Cardinality(RowsOf(resources, resLast[1].hospital,
                             LabelOf(resLast[1].resourceType))) = 1

\* C8 witness: a call for 'icu' met the seeded 'ICU Beds' row of its hospital
\* and merged into it; no row was added.
C8_Witness ==
    /\ resLast # None
    /\ resLast[1].resourceType = "icu"
    /\ resLast[1].hospital = "City General Hospital"
    /\ resLast[1].idx = 1
    /\ Len(resources) = Len(SeedResources)
    /\ resources[1].resource = "ICU Beds"

\* C9 as claimed: a supply of q >= 0 that finds no row creates a row with
\* available q and capacity max(10, q), whose status and priority follow the
\* thresholds of an update: Urgent/urgent for available <= 3, In Progress/high
\* for available < capacity / 2, Available/medium otherwise (q = 5: Available,
\* medium).
C9_NewSupplyRowByUpdateThresholds ==
    (resLast # None /\ resLast[1].idx = 0 /\ resLast[1].quantity >= 0) =>
        LET r == resources[1]
            q == resLast[1].quantity
        IN /\ Available(r) = q
           /\ Capacity(r) = Max(10, q)
           /\ r.status = (IF q <= 3 THEN "Urgent"
                          ELSE IF 2 * q < Capacity(r) THEN "In Progress"
                          ELSE "Available")
           /\ r.priority = (IF q <= 3 THEN "urgent"
                            ELSE IF 2 * q < Capacity(r) THEN "high"
                            ELSE "medium")

\* C10: a request (q < 0) that finds no row adds exactly one row, at the head,
\* with available 0, capacity |q|, progress 0, status Urgent, priority urgent
\* and a total annotated "(Requested)".
C10_NewRequestRow ==
    [][(ResCallStep /\ resLast'[1].idx = 0 /\ resLast'[1].quantity < 0) =>
        LET r == resources'[1]
            a == resLast'[1]
        IN /\ resources' = <<r>> \o resources
           /\ RowsOf(resources, a.hospital, LabelOf(a.resourceType)) = {}
           /\ RowsOf(resources', a.hospital, LabelOf(a.resourceType)) = {1}
           /\ r.total = <<Num(0), Str("/"), Num(-a.quantity), Str(" (Requested)")>>
           /\ Available(r) = 0
           /\ Capacity(r) = -a.quantity
           /\ r.progress = 0
           /\ r.status = "Urgent"
           /\ r.priority = "urgent"]_vars

\* C10 witness: a request of 3 for a pair with no row made the head row
\* "0/3 (Requested)".
C10_Witness ==
    /\ resLast # None
    /\ resLast[1].idx = 0
    /\ resLast[1].quantity = -3
    /\ Len(resources) = Len(SeedResources) + 1
    /\ resources[1].total = FormatRequested(3)
    /\ resources[1].status = "Urgent"

\* The labels the calls can name.
ResLabels == {MapLabel(rt) : rt \in ResourceTypes}

\* C11: supplies to one hospital and label accumulate in one row: its
\* available count is the count it had when it appeared plus every quantity
\* supplied since, and the pair still has exactly one row (0/10 supplied with 2
\* twice shows 4).
C11_SuppliesAccumulate ==
    /\ resSupplied # None =>
          \A h \in Hospitals, l \in ResLabels :
              LET acc == resSupplied[1][<<h, l>>]
              IN acc.base # None =>
                    /\ Cardinality(RowsOf(resources, h, l)) = 1
                    /\ \A i \in RowsOf(resources, h, l) :
                          Available(resources[i]) = acc.base[1] + acc.sum
    /\ Available(SupplyOnRow(SupplyOnRow(
            NewSupplyRow(5, "X", "ICU Beds", 0), 2), 2)) = 4

\* C11 witness: two supplies (3 and 4, or 4 and 3) reached the seeded
\* 'ICU Beds' row of 8, which now shows 15, in the same single row.
C11_Witness ==
    /\ resSupplied # None
    /\ resSupplied[1][<<"City General Hospital", "ICU Beds">>] =
           [base |-> Some(8), sum |-> 7]
    /\ resCalls = 2
    /\ Len(resources) = Len(SeedResources)
    /\ Available(resources[1]) = 15

\* p is 100 * a / b rounded to a nearest whole number and kept within 0..100.
IsRoundedPercent(p, a, b) ==
    /\ p \in 0..100
    /\ \/ 2 * (100 * a - p * b) \in (0 - b)..b
       \/ p = 100 /\ 100 * a > 100 * b

\* Every row but the one at position idx is as it was.
OnlyRowChanged(idx) ==
    /\ Len(resources') = Len(resources)
    /\ \A i \in 1..Len(resources) : i # idx => resources'[i] = resources[i]

\* The fields of a row that no update touches.
SameIdentity(r, u) ==
    /\ u.id = r.id /\ u.hospital = r.hospital /\ u.resource = r.resource
    /\ u.createdDate = r.createdDate /\ u.dueDate = r.dueDate

----------------------------------------------------------------------------
(* Properties: the notification list over a session *)

\* The positions of the trace at which listener l is called.
CallsTo(trace, l) == {k \in 1..Len(trace) : IsNotify(trace[k]) /\ trace[k].who = l}

\* The trace calls every listener of ls exactly once, with this list, and
\* calls nobody else.
NotifiedOnce(trace, ls, list) ==
    /\ \A l \in Range(ls) :
          /\ Cardinality(CallsTo(trace, l)) = 1
          /\ \A k \in CallsTo(trace, l) : trace[k].list = list
    /\ \A k \in 1..Len(trace) : IsNotify(trace[k]) => trace[k].who \in Range(ls)

\* new is old with isRead set in every element and nothing else changed.
IsAllReadOf(new, old) ==
    /\ Len(new) = Len(old)
    /\ \A i \in 1..Len(old) :
          /\ new[i].isRead = TRUE
          /\ [new[i] EXCEPT !.isRead = old[i].isRead] = old[i]

\* new is old with isRead set in the elements of this id.
IsMarkedOf(new, old, id) ==
    /\ Len(new) = Len(old)
    /\ \A i \in 1..Len(old) :
          IF old[i].id = id
          THEN new[i].isRead /\ [new[i] EXCEPT !.isRead = old[i].isRead] = old[i]
          ELSE new[i] = old[i]

\* new is old without the expired elements and those older than the cutoff.
IsClearedOf(new, old, clock, days) ==
    LET keep == {i \in 1..Len(old) :
                   /\ old[i].expiresAt = None \/ old[i].expiresAt[1] >= clock
                   /\ old[i].timestamp >= clock - days}
    IN new = SelectSeqKeep(old, keep)

HasFailedSave(trace) ==
    \E k \in 1..Len(trace) : trace[k].ev = "save" /\ trace[k].who = "failed"

HasSave(trace) == \E k \in 1..Len(trace) : trace[k].ev = "save"

\* C14: markAllAsRead sets isRead on every notification, changes no other
\* field and no position, and calls each subscriber exactly once with the
\* whole updated list.
C14_MarkAllAsRead ==
    [][callResult'.op = "markAllAsRead" =>
        /\ IsAllReadOf(notifications', notifications)
        /\ NotifiedOnce(callTrace', listeners, notifications')
        /\ listeners' = listeners]_vars

\* C14 witness: markAllAsRead ran on a list of three with two subscribers;
\* everything is read and stored.
C14_Witness ==
    /\ callResult.op = "markAllAsRead"
    /\ Len(notifications) = 3
    /\ Len(listeners) = 2
    /\ \A i \in 1..3 : notifications[i].isRead
    /\ storage.notifications = Some(Serialize(notifications))
    /\ Len(callTrace) = 5

\* C15: when the write of the list fails in createNotification, markAsRead,
\* markAllAsRead or clearOldNotifications, the call still completes, the list
\* in memory holds the new value, and every subscriber is called with it.
C15_SaveFailureIsNotFatal ==
    [][(HasFailedSave(callTrace')
          /\ callResult'.op \in {"createNotification", "markAsRead",
                                 "markAllAsRead", "clearOldNotifications"}) =>
        /\ callResult'.status \in {"returned", "resolved"}
        /\ callTrace'[Len(callTrace')].ev = "return"
        /\ storage' = storage
        /\ NotifiedOnce(callTrace', listeners, notifications')
        /\ CASE callResult'.op = "createNotification" ->
                  notifications' = <<callResult'.value[1]>> \o notifications
             [] callResult'.op = "markAsRead" ->
                  \E i \in 0..Len(notifications) :
                      IsMarkedOf(notifications', notifications,
                                 IF i = 0 THEN 0 ELSE notifications[i].id)
             [] callResult'.op = "markAllAsRead" ->
                  IsAllReadOf(notifications', notifications)
             [] callResult'.op = "clearOldNotifications" ->
                  \E d \in {RetentionDays, RetentionDays - 1} :
                      IsClearedOf(notifications', notifications, now, d)]_vars

\* C15 witness: markAsRead could not write: storage still shows the head
\* notification unread, memory shows it read, and the subscriber was told.
C15_Witness ==
    /\ callResult.op = "markAsRead"
    /\ callResult.status = "returned"
    /\ HasFailedSave(callTrace)
    /\ Len(notifications) >= 1
    /\ notifications[1].isRead
    /\ storage.notifications # None
    /\ Len(storage.notifications[1]) = Len(notifications)
    /\ ~storage.notifications[1][1].isRead
    /\ Len(listeners) >= 1
    /\ NotifiedOnce(callTrace, listeners, notifications)

\* C16 as claimed: updateSettings never throws; when the write of the settings
\* fails the call still returns normally.
C16_UpdateSettingsNeverThrows ==
    callResult.op = "updateSettings" => callResult.status = "returned"

\* C17 as claimed: loadSettings() with a subscriber registered restores the
\* settings and the notification list from storage, pruned, and calls the
\* subscriber with the restored list.
C17_LoadSettingsRestoresList ==
    [][(callResult'.op = "loadSettings" /\ listeners # <<>>) =>
        /\ settings' = LoadedSettings(settings, storage)
        /\ storage.notifications # None =>
              /\ notifications' = LoadFilter(storage.notifications[1], now)
              /\ NotifiedOnce(callTrace', listeners, notifications')]_vars

----------------------------------------------------------------------------
(* Properties: broadcasts *)

\* The listener calls of a trace, in the order they were made.
BroadcastOf(trace) ==
    SelectSeqKeep(trace, {k \in 1..Len(trace) : IsNotify(trace[k])})

\* One call per listener of ls, in the order of ls, each with this list.
InOrderWith(calls, ls, list) ==
    /\ Len(calls) = Len(ls)
    /\ \A i \in 1..Len(ls) :
          calls[i].ev = "notify" /\ calls[i].who = ls[i] /\ calls[i].list = list

\* new is old without l, the others in their old order.
IsWithout(new, old, l) ==
    /\ l \in Range(old)
    /\ l \notin Range(new)
    /\ new = SelectSeqKeep(old, {i \in 1..Len(old) : old[i] # l})

\* The step broadcasts the notification list.
NotifBroadcastStep ==
    /\ callTrace' # callTrace \/ callResult' # callResult
    /\ \/ callResult'.op \in {"markAsRead", "markAllAsRead", "clearOldNotifications"}
       \/ /\ callResult'.op = "createNotification"
          /\ IN_APP \in Range(callResult'.value[1].deliveryChannels)

\* C18: in both services a broadcast calls the listeners registered at that
\* moment, in the order of their registration, each once and with the whole
\* current list; subscribe adds at the end; the handle removes its listener
\* and leaves the others in order, so no later broadcast reaches it.
C18_BroadcastInRegistrationOrder ==
    [][/\ NotifBroadcastStep =>
             /\ InOrderWith(BroadcastOf(callTrace'), listeners', notifications')
             /\ listeners' = listeners
       /\ ResCallStep =>
             /\ InOrderWith(resLast'[1].emitted, resListeners', resources')
             /\ resListeners' = resListeners
       /\ Len(listeners') > Len(listeners) =>
             SubSeq(listeners', 1, Len(listeners)) = listeners
       /\ Len(resListeners') > Len(resListeners) =>
             SubSeq(resListeners', 1, Len(resListeners)) = resListeners
       /\ (listeners' # listeners /\ Len(listeners') <= Len(listeners)) =>
             \E l \in ListenerIds : IsWithout(listeners', listeners, l)
       /\ (resListeners' # resListeners /\ Len(resListeners') <= Len(resListeners)) =>
             \E l \in ResListenerIds : IsWithout(resListeners', resListeners, l)
      ]_vars

\* C18 witness: a notification broadcast reached L2 and then L1, registered in
\* that order, and a resource broadcast reached R2 and then R1.
C18_Witness ==
    /\ listeners = <<"L2", "L1">>
    /\ callResult.op = "markAllAsRead"
    /\ Len(notifications) = 2
    /\ BroadcastOf(callTrace) =
          <<Ev("notify", "L2", notifications), Ev("notify", "L1", notifications)>>
    /\ resListeners = <<"R2", "R1">>
    /\ resLast # None
    /\ resLast[1].emitted =
          <<Ev("notify", "R2", resources), Ev("notify", "R1", resources)>>

\* The positions of the trace with this kind of event.
EventsOf(trace, kind) == {k \in 1..Len(trace) : trace[k].ev = kind}

\* C19: in every mutating call the new list is assigned first, every
\* subscriber is then called with exactly that list, and only then the call
\* returns; the list changes in no other step, and a send that settles later
\* neither changes the list nor calls a subscriber, so the broadcasts of two
\* calls never interleave and subscribers see the lists in mutation order.
C19_BroadcastCompletesWithinCall ==
    [][/\ NotifBroadcastStep =>
             LET T == callTrace'
             IN /\ EventsOf(T, "return") = {Len(T)}
                /\ Cardinality(EventsOf(T, "store")) = 1
                /\ \A i \in EventsOf(T, "store") :
                      /\ T[i].list = notifications'
                      /\ \A k \in EventsOf(T, "notify") : i < k /\ k < Len(T)
                /\ NotifiedOnce(T, listeners, notifications')
       /\ notifications' # notifications =>
             NotifBroadcastStep \/ callResult'.op = "getInstance"
       /\ SettleStep =>
             /\ notifications' = notifications
             /\ callTrace' = callTrace
       /\ (callResult'.op = "createNotification" /\ NotifBroadcastStep) =>
             notifications' = <<callResult'.value[1]>> \o notifications
      ]_vars

\* C19 witness: two notifications were created and then all marked read,
\* with two subscribers told, while the push of the first one was still in
\* flight; it has settled since.
C19_Witness ==
    /\ callResult.op = "markAllAsRead"
    /\ Len(notifications) = 2
    /\ Len(listeners) = 2
    /\ NotifiedOnce(callTrace, listeners, notifications)
    /\ settled # None
    /\ settled[1].task.id = 1
    /\ Cardinality(pending) = 1

\* The stored list, read back as loadNotifications reads it; nothing stored
\* reads as the empty list.
StoredList(st) ==
    IF st.notifications = None THEN <<>>
    ELSE [i \in 1..Len(st.notifications[1]) |->
             ReviveNotification(st.notifications[1][i])]

\* C20: when an operation that changes the list has returned (create with the
\* in-app channel, markAsRead, markAllAsRead, clearOldNotifications, the load at
\* construction) and its write did not fail, the stored list is the list in
\* memory: the same notifications in the same order with the same isRead.
C20_StorageMirrorsList ==
    [][((NotifBroadcastStep \/ (callResult'.op = "getInstance" /\ ~constructed))
          /\ ~HasFailedSave(callTrace')) =>
        /\ StoredList(storage') = notifications'
        /\ notifications' # <<>> =>
              storage'.notifications = Some(Serialize(notifications'))]_vars

\* C20 witness: the load at construction dropped one of the two stored
\* notifications and wrote the remaining one back.
C20_Witness ==
    /\ callResult.op = "getInstance"
    /\ callTrace = <<SaveEvent(notifications, TRUE)>>
    /\ Len(notifications) = 1
    /\ storage.notifications = Some(Serialize(notifications))

----------------------------------------------------------------------------
(* Properties: the inventory over a restart *)

\* C21 as claimed: the inventory is mirrored to durable storage after every
\* addOrUpdateResource call, so the list after a restart is the list before it.
C21_InventorySurvivesRestart ==
    [][(resLast # None /\ resLast' = None) => resources' = resources]_vars

----------------------------------------------------------------------------
(* Properties: malformed storage *)

\* C22 as claimed: with a malformed settings or notifications entry in
\* storage, construction does not throw and leaves the default settings and an
\* empty list, and every later public call succeeds.
C22_MalformedStorageFallsBack ==
    /\ callResult.status \notin {"threw", "rejected"}
    /\ callResult.op = "getInstance" =>
          /\ settings = getDefaultSettings
          /\ notifications = <<>>

----------------------------------------------------------------------------
(* Properties: settings *)

\* C23 as claimed: updateSettings(partial) replaces exactly the top-level keys
\* of partial, each by the whole value given, and leaves the other keys;
\* straight afterwards the stored settings are the settings in memory, so a
\* loadSettings() that follows changes nothing; the notification list is
\* untouched and nobody is called.
C23_UpdateSettingsShallowMerge ==
    [][callResult'.op = "updateSettings" =>
        /\ \E u \in SettingsUpdates :
              /\ \A k \in DOMAIN u : settings'[k] = u[k]
              /\ \A k \in (DOMAIN settings) \ (DOMAIN u) : settings'[k] = settings[k]
              /\ DOMAIN settings' = DOMAIN settings
        /\ storage'.notificationSettings = Some(settings')
        /\ LoadedSettings(settings', storage') = settings'
        /\ notifications' = notifications
        /\ storage'.notifications = storage.notifications
        /\ callTrace' = <<>>]_vars

----------------------------------------------------------------------------
(* Properties: markAsRead and clearOldNotifications *)

\* The ids a markAsRead call can have been given: those in the list, and one
\* that is in no list.
MarkableIds(list) == {list[i].id : i \in 1..Len(list)} \cup {0}

\* C24: markAsRead(id) sets isRead on the notifications with that id and
\* changes nothing else: length, order and every other notification stay, as
\* do id, timestamp, priority, category and deliveryChannels of all; the list
\* is written once and broadcast once, also when no notification has the id.
C24_MarkAsReadFrame ==
    [][callResult'.op = "markAsRead" =>
        /\ \E id \in MarkableIds(notifications) :
              IsMarkedOf(notifications', notifications, id)
        /\ Len(notifications') = Len(notifications)
        /\ \A i \in 1..Len(notifications) :
              /\ notifications'[i].id = notifications[i].id
              /\ notifications'[i].timestamp = notifications[i].timestamp
              /\ notifications'[i].priority = notifications[i].priority
              /\ notifications'[i].category = notifications[i].category
              /\ notifications'[i].deliveryChannels = notifications[i].deliveryChannels
              /\ notifications[i].isRead => notifications'[i].isRead
        /\ Cardinality(EventsOf(callTrace', "save")) = 1
        /\ \A k \in EventsOf(callTrace', "save") :
              callTrace'[k].list = notifications'
        /\ ~HasFailedSave(callTrace') =>
              storage'.notifications = Some(Serialize(notifications'))
        /\ NotifiedOnce(callTrace', listeners, notifications')
        /\ settings' = settings /\ listeners' = listeners]_vars

\* C24 witness: markAsRead marked the second of three notifications; the
\* first is still unread, and the subscriber was told once.
C24_Witness ==
    /\ callResult.op = "markAsRead"
    /\ Len(notifications) = 3
    /\ ~notifications[1].isRead
    /\ notifications[2].isRead
    /\ Len(listeners) = 1
    /\ NotifiedOnce(callTrace, listeners, notifications)
    /\ storage.notifications = Some(Serialize(notifications))

\* C25: clearOldNotifications with 30 days keeps exactly what loading the
\* same list at the same clock keeps (expired ones go, the age boundary counts
\* the same), in the same order, and writes and broadcasts the result once
\* whether or not anything was dropped.
C25_ClearMatchesLoadPruning ==
    [][callResult'.op = "clearOldNotifications" =>
        /\ notifications' = LoadFilter(Serialize(notifications), now)
        /\ callTrace' # callTrace =>
              /\ Cardinality(EventsOf(callTrace', "save")) = 1
              /\ \A k \in EventsOf(callTrace', "save") :
                    callTrace'[k].list = notifications'
              /\ NotifiedOnce(callTrace', listeners, notifications')
        /\ ~HasFailedSave(callTrace') =>
              storage'.notifications = Some(Serialize(notifications'))]_vars

\* C25 witness: on day 30 the sweep kept a notification of day 0 that expires
\* on day 30 (both boundaries count as kept) and told the subscriber.
C25_Witness ==
    /\ callResult.op = "clearOldNotifications"
    /\ now = RetentionDays
    /\ Len(notifications) = 1
    /\ notifications[1].timestamp = 0
    /\ notifications[1].expiresAt = Some(RetentionDays)
    /\ Len(listeners) = 1
    /\ NotifiedOnce(callTrace, listeners, notifications)

----------------------------------------------------------------------------
(* Properties: createEmergencyAlert *)

\* str spells word, upper or lower case letter by letter.
Spells(str, word) ==
    /\ Len(str) = Len(word)
    /\ \A i \in 1..Len(word) :
          str[i] = word[i] \/ <<str[i], word[i]>> \in UpperLower

\* The priority the claim gives for a severity.
ClaimedPriority(severity) ==
    IF severity = None THEN CRITICAL
    ELSE IF Spells(severity[1], <<"l", "o", "w">>) THEN LOW
    ELSE IF Spells(severity[1], <<"m", "e", "d", "i", "u", "m">>) THEN MEDIUM
    ELSE IF Spells(severity[1], <<"h", "i", "g", "h">>) THEN HIGH
    ELSE IF Spells(severity[1], <<"u", "r", "g", "e", "n", "t">>) THEN URGENT
    ELSE CRITICAL

\* C26: createEmergencyAlert maps low, medium, high, urgent and critical, in
\* any mix of upper and lower case, to the priority of that name and every
\* other, empty or absent severity to critical; the category is always
\* emergency, so the policy accepts the notification whatever the priority
\* and the settings.
C26_EmergencySeverity ==
    pout # None =>
        /\ pout[1].priority = ClaimedPriority(pin.severity)
        /\ pout[1].category = EMERGENCY
        /\ pout[1].accepted

\* C26 witness: "HIGH" gave priority high, and "Low", a priority the settings
\* disable, during quiet hours, was still accepted.
C26_Witness ==
    /\ pout # None
    /\ \/ pin.severity = Some(<<"H", "I", "G", "H">>) /\ pout[1].priority = HIGH
       \/ /\ pin.severity = Some(<<"L", "o", "w">>)
          /\ pout[1].priority = LOW
          /\ ~Truthy(pin.priorities, LOW)
          /\ pin.quiet /\ pin.time = TimeStr(3, 0)
          /\ pout[1].accepted

----------------------------------------------------------------------------
(* Properties: the resource list, its order and its subscribers *)

\* C27: a call that creates a row puts it at the head and the rows that were
\* there follow in their order; a call that updates a row leaves the length of
\* the list and the position of every row, the updated one included, as they
\* were.
C27_RowPlacement ==
    [][ResCallStep =>
        LET a == resLast'[1]
        IN IF a.idx = 0
           THEN /\ Len(resources') = Len(resources) + 1
                /\ resources'[1].hospital = a.hospital
                /\ resources'[1].resource = LabelOf(a.resourceType)
                /\ \A i \in 1..Len(resources) : resources[i].id # resources'[1].id
                /\ \A i \in 1..Len(resources) : resources'[i + 1] = resources[i]
           ELSE /\ Len(resources') = Len(resources)
                /\ \A i \in 1..Len(resources) :
                      /\ resources'[i].id = resources[i].id
                      /\ resources'[i].hospital = resources[i].hospital
                      /\ resources'[i].resource = resources[i].resource
                /\ resources'[a.idx].hospital = a.hospital
                /\ resources'[a.idx].resource = LabelOf(a.resourceType)]_vars

\* C27 witness: a first call put a new row for hospital X at the head, which
\* moved the seeded rows down by one; a second call then updated the seeded ICU
\* row where it stood, at position 2.
C27_Witness ==
    /\ resLast # None
    /\ resCalls = 2
    /\ resLast[1].idx = 2
    /\ Len(resources) = Len(SeedResources) + 1
    /\ resources[1].hospital = "X"
    /\ resources[2].id = SeedResources[1].id
    /\ resources[2] # SeedResources[1]
    /\ \A i \in 2..Len(SeedResources) : resources[i + 1] = SeedResources[i]

\* getResources(): the list itself.
getResources == resources

\* The branch a call took: request or supply, on an existing or a new row.
BranchOf(a) ==
    <<IF a.quantity < 0 THEN "request" ELSE "supply",
      IF a.idx >= 1 THEN "existing" ELSE "new">>

\* C28: in each of its four branches (request or supply, existing or new row)
\* an addOrUpdateResource call calls every subscriber registered at the call
\* exactly once and nobody else; the calls are part of the call itself, come
\* after the list was changed and carry the list getResources() then returns.
C28_EmitOncePerCall ==
    [][ResCallStep =>
        \A b \in {"request", "supply"} \X {"existing", "new"} :
            BranchOf(resLast'[1]) = b =>
                /\ NotifiedOnce(resLast'[1].emitted, resListeners, getResources')
                /\ Len(resLast'[1].emitted) = Len(resListeners)
                /\ resListeners' = resListeners
                /\ b[2] = "new" => Len(getResources') = Len(resources) + 1
                /\ b[2] = "existing" =>
                      \A k \in 1..Len(resLast'[1].emitted) :
                          resLast'[1].emitted[k].list[resLast'[1].idx].total
                              = getResources'[resLast'[1].idx].total]_vars

\* C28 witness: with two subscribers, a request that found no row called both
\* once with the list that has the requested row at its head.
C28_Witness ==
    /\ resLast # None
    /\ BranchOf(resLast[1]) = <<"request", "new">>
    /\ Len(resListeners) = 2
    /\ Len(resLast[1].emitted) = 2
    /\ \A k \in 1..2 :
          /\ resLast[1].emitted[k].list = getResources
          /\ resLast[1].emitted[k].list[1].total = FormatRequested(-resLast[1].quantity)

----------------------------------------------------------------------------
(* Properties: the channel sends of one notification *)

\* The positions of deliveryChannels whose channel the settings enable.
EnabledOccurrences(s, n) ==
    {k \in 1..Len(n.deliveryChannels) :
        n.deliveryChannels[k] \in DOMAIN s.channels
            /\ s.channels[n.deliveryChannels[k]]}

\* The channels of the sends a call started, in the order it started them.
SendsOf(trace) ==
    LET sends == SelectSeq(trace, IsSend)
    IN [i \in 1..Len(sends) |-> sends[i].who]

\* C29: the sends of one notification are independent.  An accepted
\* notification gets one send per occurrence of an enabled channel in its
\* deliveryChannels, all started inside the call; when a send fails, the other
\* sends of the notification that are in flight stay in flight, the list is
\* unchanged, and no send is started again: sends start only in the call that
\* created their notification.
C29_ChannelSendsIndependent ==
    [][/\ (CreateStep /\ PolicyAccepted(callTrace')) =>
             LET n == callResult'.value[1]
             IN /\ SendsOf(callTrace') =
                      SelectSeqKeep(n.deliveryChannels,
                                    EnabledOccurrences(settings, n))
                /\ \A t \in pending' \ pending :
                      /\ t.id = n.id
                      /\ t.k \in EnabledOccurrences(settings, n)
                      /\ n.deliveryChannels[t.k] = t.channel
                /\ \A t, u \in pending' \ pending : t.k = u.k => t = u
       /\ SettleStep =>
             /\ pending' = pending \ {settled'[1].task}
             /\ settled'[1].task \in pending
             /\ notifications' = notifications
             /\ callTrace' = callTrace
       /\ (pending' \ pending # {}) => CreateStep]_vars

\* C29 witness: a notification addressed to in-app, push, SMS and push again
\* got four sends; one push send failed while the other push send of the same
\* notification is still in flight, and the notification is in the list.
C29_Witness ==
    /\ AfterCreate
    /\ settled # None
    /\ settled[1].outcome = "failed"
    /\ settled[1].task.id = Created.id
    /\ SendsOf(callTrace) = <<IN_APP, PUSH, SMS, PUSH>>
    /\ \E t \in pending :
          t.id = settled[1].task.id /\ t.channel = PUSH /\ t.k # settled[1].task.k
    /\ \E i \in 1..Len(notifications) : notifications[i].id = settled[1].task.id

----------------------------------------------------------------------------
(* Properties: progress *)

\* The row is one the constructor seeded and no call has changed.
IsUntouchedSeed(r) ==
    \E i \in 1..Len(SeedResources) : r = SeedResources[i]

\* C30 as claimed: in every state every row's progress is an integer from 0
\* to 100, and every row a call has created or updated has progress
\* round(100 * available / capacity), the half taken up as Math.round does.
C30_ProgressIsPercentage ==
    \A i \in 1..Len(resources) :
        LET r == resources[i]
        IN /\ r.progress \in 0..100
           /\ ~IsUntouchedSeed(r) =>
                 /\ Capacity(r) > 0
                 /\ r.progress =
                       (200 * Available(r) + Capacity(r)) \div (2 * Capacity(r))

----------------------------------------------------------------------------
(* Properties: a notification that is not for the in-app list *)

\* C31: a createNotification call whose draft does not name the in-app
\* channel leaves the list and the storage as they were and calls no
\* subscriber; it resolves with the created notification, and when the policy
\* accepts it, it starts one send per enabled channel of the draft, and none
\* when the policy rejects it.
C31_NotInAppLeavesListAlone ==
    [][(CreateStep /\ callResult'.status = "resolved"
            /\ IN_APP \notin Range(callResult'.value[1].deliveryChannels)) =>
        LET n == callResult'.value[1]
        IN /\ notifications' = notifications
           /\ storage' = storage
           /\ \A k \in 1..Len(callTrace') :
                 callTrace'[k].ev \notin {"store", "notify", "save"}
           /\ callResult'.op = "createNotification"
           /\ n.id = nextId'
           /\ n.timestamp = now
           /\ \A i \in 1..Len(notifications') : notifications'[i].id # n.id
           /\ PolicyAccepted(callTrace') =>
                 SendsOf(callTrace') =
                     SelectSeqKeep(n.deliveryChannels, EnabledOccurrences(settings, n))
           /\ PolicyRejected(callTrace') => SendsOf(callTrace') = <<>>
           /\ PolicyAccepted(callTrace') \/ PolicyRejected(callTrace')]_vars

\* C31 witness: with two subscribers and one notification in the list, a
\* draft for push and SMS was created: nobody was called, the list still has
\* its one notification, and a send was started.
C31_Witness ==
    /\ AfterCreate
    /\ callResult.status = "resolved"
    /\ Created.deliveryChannels = <<PUSH, SMS>>
    /\ Len(listeners) = 2
    /\ Len(notifications) = 1
    /\ notifications[1].id # Created.id
    /\ SelectSeq(callTrace, IsNotify) = <<>>
    /\ PolicyAccepted(callTrace)
    /\ SendsOf(callTrace) # <<>>

----------------------------------------------------------------------------
(* Properties: rows are kept *)

\* The positions of rows at which the row with this id stands.
PositionsOfId(rows, id) == {j \in 1..Len(rows) : rows[j].id = id}

\* C32: no addOrUpdateResource call removes a row: every row of the list is
\* in the list after the call, under its id.  A call that updates a row leaves
\* that row's id, hospital, resource, createdDate and dueDate as they were and
\* every other row exactly as it was; a call that creates a row leaves every
\* row that was there exactly as it was.
C32_RowsAreKept ==
    [][ResCallStep =>
        LET idx == resLast'[1].idx
        IN /\ \A i \in 1..Len(resources) :
                 Cardinality(PositionsOfId(resources', resources[i].id)) = 1
           /\ Len(resources') >= Len(resources)
           /\ idx >= 1 =>
                 /\ resources'[idx].id = resources[idx].id
                 /\ resources'[idx].hospital = resources[idx].hospital
                 /\ resources'[idx].resource = resources[idx].resource
                 /\ resources'[idx].createdDate = resources[idx].createdDate
                 /\ resources'[idx].dueDate = resources[idx].dueDate
                 /\ \A i \in 1..Len(resources) :
                       i # idx =>
                           \E j \in 1..Len(resources') : resources'[j] = resources[i]
           /\ idx = 0 =>
                 \A i \in 1..Len(resources) :
                     \E j \in 1..Len(resources') : resources'[j] = resources[i]]_vars

\* C32 witness: the seeded ICU row was updated by two calls: it is not the row it was, it still has its id, its created date
\* '02-09-2025' and its due date '2h left', and the three other seeded rows
\* are as seeded.
C32_Witness ==
    /\ resCalls = 2
    /\ Len(resources) = Len(SeedResources)
    /\ resources[1] # SeedResources[1]
    /\ resources[1].id = SeedResources[1].id
    /\ resources[1].createdDate = "02-09-2025"
    /\ resources[1].dueDate = "2h left"
    /\ resources[1].total # SeedResources[1].total
    /\ \A i \in 2..Len(SeedResources) : resources[i] = SeedResources[i]

----------------------------------------------------------------------------
(* Properties: the forms *)

\* The text is empty or white space only.
IsBlank(str) == str \in {"", " ", "   "}

\* The form data passes the checks the claim names for its form.
FormIsValid(form, d) ==
    CASE form = "alert" ->
            ~IsBlank(d.location) /\ ~IsBlank(d.contact) /\ ~IsBlank(d.description)
      [] form = "request" -> d.resourceType # "" /\ ~IsBlank(d.hospital)
      [] form = "admin" -> ~IsBlank(d.hospital)

FormInitial(form) ==
    CASE form = "alert"   -> AlertInitial
      [] form = "request" -> RequestInitial
      [] form = "admin"   -> AdminInitial

\* The step is a submit of a form; pout' tells which.
SubmitStep == pout' # None /\ pout' # pout

\* C33: a submit reaches onSubmit or a service only with validated input:
\* EmergencyAlert when location, contact and description are non-blank after
\* trimming, ResourceRequestModal when a resource type is selected and the
\* hospital is non-blank, DoctorAdminPanel when the hospital is non-blank.  A
\* submit that fails validation changes neither service and keeps the form
\* data; a submit that passes invokes the services with the form's data and
\* resets its form to the initial values.  No service is invoked by any other
\* step.
C33_FormsSubmitValidatedInput ==
    [][/\ (resCalls' # resCalls \/ nextId' # nextId) =>
             SubmitStep /\ pout'[1].submitted
       /\ SubmitStep =>
             LET f     == pout'[1].form
                 d     == pin[1][f]
                 valid == FormIsValid(f, d)
             IN /\ pout'[1].submitted <=> valid
                /\ ~valid =>
                      /\ pin' = pin
                      /\ UNCHANGED <<notifVars, resVars>>
                /\ valid =>
                      /\ pin' = Some([pin[1] EXCEPT ![f] = FormInitial(f)])
                      /\ nextId' = nextId + 1
                      /\ f = "alert" => UNCHANGED resVars
                      /\ f \in {"request", "admin"} =>
                            /\ resCalls' = resCalls + 1
                            /\ resLast'[1].hospital = d.hospital
                            /\ resLast'[1].resourceType = d.resourceType
                            /\ resLast'[1].quantity =
                                  (IF f = "request" THEN 0 - d.quantity
                                   ELSE d.quantity)]_vars

\* C33 witness: the admin form and the alert form were submitted with valid
\* data and are back at their initial values, one resource call and two
\* notifications came of it; then the request form was submitted with a
\* hospital of spaces, which did nothing and left the form as typed.
C33_Witness ==
    /\ pout = Outcome("request", FALSE, "alert")
    /\ pin[1].request.hospital = "   "
    /\ pin[1].request.resourceType = "icu"
    /\ pin[1].admin = AdminInitial
    /\ pin[1].alert = AlertInitial
    /\ resCalls = 1
    /\ resLast[1].quantity = 4
    /\ nextId = 2
    /\ Len(notifications) = 2

----------------------------------------------------------------------------
(* Properties: subscribers that call back or throw *)

\* The calls that change the list.
MutatingOps ==
    {"createNotification", "markAsRead", "markAllAsRead", "clearOldNotifications"}

\* The list of the last call the trace makes to listener l.
LastDelivered(trace, l) ==
    LET calls == {k \in 1..Len(trace) : IsNotify(trace[k]) /\ trace[k].who = l}
        last  == CHOOSE k \in calls : \A j \in calls : j <= k
    IN trace[last].list

\* C34 as claimed: when a top-level mutating call has returned, the last list
\* each registered subscriber was handed in it is the list getNotifications()
\* returns, also when a subscriber called markAllAsRead() from its callback.
C34_LastDeliveredIsCurrent ==
    (callResult.op \in MutatingOps /\ callResult.status \in {"resolved", "returned"}) =>
        \A l \in Range(listeners) :
            /\ CallsTo(callTrace, l) # {}
            /\ LastDelivered(callTrace, l) = notifications

\* C35 as claimed: a subscriber that throws does not break the operation: the
\* call does not fail, every subscriber has been called, and the new list has
\* been written to storage.
C35_ThrowingSubscriberIsContained ==
    callResult.op \in MutatingOps =>
        /\ callResult.status \in {"resolved", "returned"}
        /\ \A l \in Range(listeners) : CallsTo(callTrace, l) # {}
        /\ HasSave(callTrace)
        /\ storage.notifications = Some(Serialize(notifications))

----------------------------------------------------------------------------
(* Properties: subscribing *)

\* C36: subscribe does not call the listener, in either service: the step
\* that registers a listener delivers nothing and leaves the list alone, also
\* when the list is not empty, and only a call that changes the list
\* (create, mark read, mark all read, prune) delivers anything; loadSettings
\* and the constructor that restored the list deliver nothing.
C36_SubscribeDeliversNothing ==
    [][/\ Len(listeners') > Len(listeners) =>
              /\ callTrace' = <<>>
              /\ notifications' = notifications
       /\ callResult'.op \notin MutatingOps =>
              \A k \in 1..Len(callTrace') : ~IsNotify(callTrace'[k])
       /\ Len(resListeners') > Len(resListeners) =>
              /\ resLast' = resLast
              /\ resources' = resources]_vars

\* C36 witness: two notifications were restored from storage, a view
\* subscribed to both services and then called loadSettings; nothing has been
\* delivered to it, while both lists are not empty.
C36_Witness ==
    /\ constructed
    /\ Len(notifications) = 2
    /\ listeners = <<"L1">>
    /\ callResult.op = "loadSettings"
    /\ callTrace = <<>>
    /\ resListeners = <<"R1">>
    /\ resources # <<>>
    /\ resLast = None

----------------------------------------------------------------------------
(* Properties: the numbers of a row *)

\* The total reads "<number>/<number>", with or without an annotation.
HasCounts(r) ==
    /\ Len(r.total) >= 3
    /\ r.total[1].t = "num"
    /\ r.total[2] = Str("/")
    /\ r.total[3].t = "num"

\* C37: in every reachable state every row, seeded or created, has counts
\* with 0 <= available <= capacity and capacity >= 1.
C37_CountsWithinCapacity ==
    \A i \in 1..Len(resources) :
        /\ HasCounts(resources[i])
        /\ 0 <= Available(resources[i])
        /\ Available(resources[i]) <= Capacity(resources[i])
        /\ Capacity(resources[i]) >= 1

\* C37 witness: a supply of 0 created a row with nothing of ten, and a supply
\* of 5 took the seeded 8 of 12 past its capacity, which rose with it.
C37_Witness ==
    /\ resCalls = 2
    /\ \E i \in 1..Len(resources) :
          /\ resources[i].hospital = "X"
          /\ Available(resources[i]) = 0
          /\ Capacity(resources[i]) = 10
    /\ \E i \in 1..Len(resources) :
          /\ resources[i].id = 1
          /\ Available(resources[i]) = 13
          /\ Capacity(resources[i]) = 13

\* C38: no call lowers a row's available or its capacity, and a request
\* (quantity < 0) leaves the available of every row as it was.
C38_CountsNeverDecrease ==
    [][ResCallStep =>
          \A i \in 1..Len(resources) :
              \E j \in 1..Len(resources') :
                  /\ resources'[j].id = resources[i].id
                  /\ Available(resources'[j]) >= Available(resources[i])
                  /\ Capacity(resources'[j]) >= Capacity(resources[i])
                  /\ resLast'[1].quantity < 0 =>
                        Available(resources'[j]) = Available(resources[i])]_vars

\* C38 witness: the seeded 8 of 12 was supplied 3 and then asked for 12: it
\* still has 11 of 12, now annotated with the need.
C38_Witness ==
    /\ resCalls = 2
    /\ resLast[1].quantity = -12
    /\ resLast[1].idx >= 1
    /\ \E i \in 1..Len(resources) :
          /\ resources[i].id = 1
          /\ resources[i].total = FormatNeed(11, 12, 12)

\* Two rows agree in what a supply computes.
SameStock(r1, r2) ==
    /\ Available(r1) = Available(r2)
    /\ Capacity(r1) = Capacity(r2)
    /\ r1.progress = r2.progress
    /\ r1.status = r2.status
    /\ r1.priority = r2.priority

\* C39 as claimed: when the first two calls are supplies q1 and q2 to one
\* hospital and label, the row they leave has the available, capacity,
\* progress, status and priority that q2 then q1 leaves and that one supply of
\* q1 + q2 leaves, whether the row was seeded or the first call created it.
C39_SupplySplitIsImmaterial ==
    [][(/\ ResCallStep
        /\ resCalls = 1
        /\ resLast[1].quantity >= 0
        /\ resLast'[1].quantity >= 0
        /\ resLast'[1].hospital = resLast[1].hospital
        /\ MapLabel(resLast'[1].resourceType) = MapLabel(resLast[1].resourceType))
       =>
          LET q1      == resLast[1].quantity
              q2      == resLast'[1].quantity
              h       == resLast[1].hospital
              label   == MapLabel(resLast[1].resourceType)
              before  == resLast[1].idx
              row     == resources'[resLast'[1].idx]
              once    == IF before = 0
                         THEN NewSupplyRow(resNextId, h, label, q1 + q2)
                         ELSE SupplyOnRow(SeedResources[before], q1 + q2)
              swapped == IF before = 0
                         THEN SupplyOnRow(NewSupplyRow(resNextId, h, label, q2), q1)
                         ELSE SupplyOnRow(SupplyOnRow(SeedResources[before], q2), q1)
          IN /\ resLast'[1].idx >= 1
             /\ SameStock(row, swapped)
             /\ SameStock(row, once)]_vars

----------------------------------------------------------------------------
(* Properties: the need a request leaves on a row *)

\* The total carries "(Need: n)" or "(Requested)" after its two numbers.
IsAnnotated(r) == Len(r.total) > 3

\* C40: a supply to a row does not keep the need a request wrote on it: the
\* total it writes is the two numbers alone, and status and priority follow
\* from the new available and capacity only, whatever was asked for before.
\* A request on a row writes its own amount as the need, not the sum with the
\* need that was there.  So 8 of 12 asked for 40 and then supplied 3 is
\* 11 of 40 and "In Progress", and asked for 8 after that has a need of 8.
C40_NeedIsNotRetained ==
    /\ [][(ResCallStep /\ resLast'[1].idx >= 1) =>
             LET old == resources[resLast'[1].idx]
                 row == resources'[resLast'[1].idx]
                 q   == resLast'[1].quantity
                 av  == Available(row)
                 cap == Capacity(row)
             IN /\ q >= 0 =>
                      /\ row.total = FormatPlain(Available(old) + q, cap)
                      /\ row.status = (IF av <= 3 THEN "Urgent"
                                       ELSE IF 2 * av < cap THEN "In Progress"
                                       ELSE "Available")
                      /\ row.priority = (IF av <= 3 THEN "urgent"
                                         ELSE IF 2 * av < cap THEN "high"
                                         ELSE "medium")
                /\ q < 0 => row.total = FormatNeed(Available(old), cap, 0 - q)]_vars
    /\ LET asked    == RequestOnRow(SeedResources[1], 40)
           supplied == SupplyOnRow(asked, 3)
           again    == RequestOnRow(supplied, 8)
       IN /\ asked.total = FormatNeed(8, 40, 40) /\ asked.status = "Urgent"
          /\ supplied.total = FormatPlain(11, 40)
          /\ supplied.status = "In Progress" /\ supplied.priority = "high"
          /\ again.total = FormatNeed(11, 40, 8)
          /\ again.status = "In Progress" /\ again.priority = "high"

\* C40 witness: the seeded 8 of 12 was asked for 40, which made it 8 of 40
\* and Urgent, and then supplied 3: it is 11 of 40 with no annotation and In
\* Progress, with 11 still below the 40 asked for.
C40_Witness ==
    /\ resCalls = 2
    /\ resLast[1].quantity = 3
    /\ resLast[1].idx >= 1
    /\ \E i \in 1..Len(resources) :
          /\ resources[i].id = 1
          /\ resources[i].total = FormatPlain(11, 40)
          /\ ~IsAnnotated(resources[i])
          /\ resources[i].status = "In Progress"
          /\ resources[i].priority = "high"

====
